---- MODULE Spec2Model ----
(***************************************************************************)
(* Model of the process-orchestration core of subspace-cli                 *)
(* (src/src/subspace/core/runner.py): the event extractor, the single-run  *)
(* supervisor (_run_codex_sync with run_agent / run_vanilla) and the       *)
(* concurrent supervisor (run_parallel, _run_parallel_async,               *)
(* _run_codex_async).                                                      *)
(*                                                                         *)
(* The specifications share the variables:                                 *)
(*   Spec        one run_parallel invocation (a batch)                     *)
(*   SpecSync    one run_agent invocation (the single-run path)            *)
(*   SpecExtract extract_agent_messages applied to bounded inputs          *)
(*   SpecNames   validate_agent_name, parse_agent_task_pair and            *)
(*               validate_command_name applied to bounded strings          *)
(*   SpecCli     one invocation of a command-line handler that takes a     *)
(*               name: cmd_run, cmd_show, cmd_parallel, cmd_command_get,   *)
(*               cmd_command_show                                          *)
(*   SpecEquiv   _run_codex_sync and _run_codex_async, in collect mode,    *)
(*               each supervising a copy of the same subprocess            *)
(*                                                                         *)
(* Time is discrete.  Code runs in zero time; only waiting (for a line,    *)
(* for an exit, for a timer) lets the clock advance, and a step of the     *)
(* supervisor that is due is taken before the clock advances.              *)
(***************************************************************************)
EXTENDS Integers, Sequences, FiniteSets, TLC

VARIABLES
    \* ---- extract_agent_messages applied to an input
    xlines,        \* the argument jsonl_lines
    xpc,           \* "input" | "done"
    xresult,       \* what the call produced
    \* ---- validate_agent_name and parse_agent_task_pair applied to an input
    ntext,         \* the argument: a string
    npc,           \* "input" | "validated" | "parsed" | "command_validated"
    nresult,       \* what the call produced
    \* ---- one invocation of a command-line handler
    ccmd,          \* the handler
    carg,          \* its argument: a name, or the list of pairs of cmd_parallel
    cpc,           \* "start" | "find" | "use" | "returned"
    lookups,       \* the names looked up in the sources' directories, in order
    launched,      \* the agents a subprocess was launched for, in order
    cret,          \* the handler's return value
    \* ---- one call of interpolate_arguments
    iprompt,       \* interpolate_arguments: the argument prompt
    iargs,         \* interpolate_arguments: the argument args, a list of strings
    ipc,           \* "idle", "input" or "done"
    iresult,       \* interpolate_arguments: the string returned
    \* ---- invocations of cmd_setup
    agents_file,   \* cmd_setup: the file ~/.codex/AGENTS.md
    setup_out,     \* cmd_setup: what the last invocation printed, "none" after an edit
    setup_ret,     \* cmd_setup: the value the last invocation returned
    setups,        \* cmd_setup: the number of invocations so far
    \* ---- one subprocess behaviour given to both supervisors
    sub,           \* what the subprocess has done so far, left to itself
    \* ---- one run_parallel invocation
    pairs,         \* the argument pairs: a sequence of agent:task strings
    os_environ,    \* the supervisor's own environment, os.environ
    output_format, \* "text" | "jsonl"
    bpc,           \* where run_parallel is: "parse" | "create" | "gather" | "report" | "summary" | "returned"
    requests,      \* the parsed requests, in input order
    rpc,           \* per run, where _run_codex_async is
    proc,          \* per run, its subprocess: not started, running, exited (with its code) or killed
    start_time,    \* per run, the clock when the coroutine started
    wait_start,    \* per run, the clock when the pending wait_for(readline) began
    nread,         \* how many lines the subprocesses of the batch have written so far
    jsonl_lines,   \* per run, the lines collected for text extraction
    stdin,         \* per run, what the supervisor has done to the subprocess's input
    emitted,       \* per run, the lines its subprocess has written, as written
    env,           \* per run, the environment the subprocess was launched with
    stderr_pipe,   \* per run, what its subprocess has written to the stderr pipe
    outcome,       \* per run, what the task ended with: an AgentResult or an exception
    done_at,       \* per run, the clock when the task ended
    reported,      \* per run, whether on_complete has been called for it
    all_results,   \* run_parallel's list all_results
    stdout,        \* what the supervisor has printed on its own standard output
    retval,        \* run_parallel's return value
    now            \* the clock

extractVars == <<xlines, xpc, xresult>>
nameVars == <<ntext, npc, nresult>>
cliVars == <<ccmd, carg, cpc, lookups, launched, cret>>
equivVars == <<sub>>
interpVars == <<iprompt, iargs, ipc, iresult>>
setupVars == <<agents_file, setup_out, setup_ret, setups>>
toolVars == <<interpVars, setupVars>>
sideVars == <<extractVars, nameVars, cliVars, equivVars, toolVars>>
batchVars == <<pairs, os_environ, output_format, bpc, requests, rpc, proc, start_time,
               wait_start, nread, jsonl_lines, stdin, emitted, env, stderr_pipe, outcome,
               done_at, reported, all_results, stdout, retval, now>>
vars == <<sideVars, batchVars>>

(***************************************************************************)
(* Bounds of the model.                                                    *)
(***************************************************************************)
MaxLen == 3          \* longest input given to extract_agent_messages
MaxNameLen == 3      \* longest name given to validate_agent_name
MaxPairLen == 5      \* longest text given to parse_agent_task_pair
MaxRuns == 2         \* most pairs given to run_parallel
MaxLines == 2        \* most lines the subprocesses of one batch write in total
MaxTime == 3         \* the clock stops here
Timeout == 2         \* the argument timeout, in clock ticks
MaxPromptLen == 3    \* longest prompt given to interpolate_arguments
MaxArgs == 2         \* most arguments given to interpolate_arguments
PipeCapacity == 1    \* chunks the stderr pipe holds before a write to it blocks
MaxSetups == 4       \* most invocations of cmd_setup
MaxSections == 8     \* most sections of AGENTS.md when the user adds one

(***************************************************************************)
(* JSON values as json.loads returns them.  A dict is a function from its  *)
(* keys to values; the scalars keep their Python type.                     *)
(***************************************************************************)
JStr(s) == [kind |-> "str", str |-> s, num |-> 0]
JNum(n) == [kind |-> "num", str |-> "", num |-> n]
JNull == [kind |-> "null", str |-> "", num |-> 0]
JArr1 == [kind |-> "arr", str |-> "", num |-> 1]      \* the list [1]
JObj(f) == [kind |-> "obj", fields |-> f]
EmptyDict == JObj(<< >>)

\* An item.completed event whose item is an object with the given type and text.
ItemEvent(itemType, text) ==
    JObj([type |-> JStr("item.completed"),
          item |-> JObj([type |-> JStr(itemType), text |-> text])])

(***************************************************************************)
(* The output lines a subprocess may write.  Each is a concrete line of    *)
(* text; json_loads gives the value json.loads returns for it and          *)
(* JSONDecodeError tells the lines json.loads rejects.                     *)
(***************************************************************************)
LineMsgA == "{\"type\":\"item.completed\",\"item\":{\"type\":\"agent_message\",\"text\":\"A\"}}"
LineMsgB == "{\"type\":\"item.completed\",\"item\":{\"type\":\"agent_message\",\"text\":\"B\"}}"
LineMsgEmpty == "{\"type\":\"item.completed\",\"item\":{\"type\":\"agent_message\",\"text\":\"\"}}"
LineMsgNoText == "{\"type\":\"item.completed\",\"item\":{\"type\":\"agent_message\"}}"
LineReasoning == "{\"type\":\"item.completed\",\"item\":{\"type\":\"reasoning\",\"text\":\"A\"}}"
LineTurn == "{\"type\":\"turn.completed\"}"
LineTurnPadded == "  {\"type\":\"turn.completed\"}  "
LineNoItem == "{\"type\":\"item.completed\"}"
LineNotJson == "not json"
LineBlank == ""
LineSpaces == "   "
LineArray == "[1]"
LineNumber == "5"
LineItemString == "{\"type\":\"item.completed\",\"item\":\"x\"}"
LineItemNull == "{\"type\":\"item.completed\",\"item\":null}"
LineTextNumber == "{\"type\":\"item.completed\",\"item\":{\"type\":\"agent_message\",\"text\":5}}"
LineTextZero == "{\"type\":\"item.completed\",\"item\":{\"type\":\"agent_message\",\"text\":0}}"

\* Lines that are valid JSON objects of an expected shape, or blank.
WellFormedLines ==
    {LineMsgA, LineMsgB, LineMsgEmpty, LineMsgNoText, LineReasoning, LineTurn,
     LineTurnPadded, LineNoItem, LineBlank, LineSpaces}
\* Lines that are not valid JSON.
NonJsonLines == {LineNotJson}
\* Lines that are valid JSON and lack the expected shape.
MisshapenLines ==
    {LineArray, LineNumber, LineItemString, LineItemNull, LineTextNumber, LineTextZero}
AllLines == WellFormedLines \cup NonJsonLines \cup MisshapenLines

\* str.strip() on a line of AllLines.
Strip(line) ==
    CASE line = LineSpaces -> ""
      [] line = LineTurnPadded -> LineTurn
      [] OTHER -> line

JSONDecodeError(line) == line \in NonJsonLines \cup {LineBlank, LineSpaces}

json_loads(line) ==
    CASE line = LineMsgA -> ItemEvent("agent_message", JStr("A"))
      [] line = LineMsgB -> ItemEvent("agent_message", JStr("B"))
      [] line = LineMsgEmpty -> ItemEvent("agent_message", JStr(""))
      [] line = LineMsgNoText ->
            JObj([type |-> JStr("item.completed"),
                  item |-> JObj([type |-> JStr("agent_message")])])
      [] line = LineReasoning -> ItemEvent("reasoning", JStr("A"))
      [] line \in {LineTurn, LineTurnPadded} -> JObj([type |-> JStr("turn.completed")])
      [] line = LineNoItem -> JObj([type |-> JStr("item.completed")])
      [] line = LineArray -> JArr1
      [] line = LineNumber -> JNum(5)
      [] line = LineItemString ->
            JObj([type |-> JStr("item.completed"), item |-> JStr("x")])
      [] line = LineItemNull ->
            JObj([type |-> JStr("item.completed"), item |-> JNull])
      [] line = LineTextNumber -> ItemEvent("agent_message", JNum(5))
      [] line = LineTextZero -> ItemEvent("agent_message", JNum(0))

\* dict.get(key, default); only a dict has the method.
HasGet(v) == v.kind = "obj"
DictGet(d, key, default) ==
    IF key \in DOMAIN d.fields THEN d.fields[key] ELSE default

\* v == s for a Python value v and a str s.
EqStr(v, s) == v.kind = "str" /\ v.str = s

\* bool(v), as `if text:` evaluates it.
Truthy(v) ==
    CASE v.kind = "str" -> v.str # ""
      [] v.kind = "num" -> v.num # 0
      [] v.kind = "null" -> FALSE
      [] v.kind = "arr" -> v.num # 0
      [] v.kind = "obj" -> DOMAIN v.fields # {}

(***************************************************************************)
(* extract_agent_messages.  The loop returns the list `messages`, or the   *)
(* exception that left the loop; the join raises TypeError on an item of   *)
(* the list that is not a str.                                             *)
(***************************************************************************)
RECURSIVE ExtractLoop(_, _, _)
ExtractLoop(lines, i, messages) ==
    IF i > Len(lines) THEN [exc |-> "none", messages |-> messages]
    ELSE LET line == Strip(lines[i]) IN
      IF line = "" THEN ExtractLoop(lines, i + 1, messages)
      ELSE IF JSONDecodeError(line) THEN ExtractLoop(lines, i + 1, messages)
      ELSE LET event == json_loads(line) IN
        IF ~HasGet(event) THEN [exc |-> "AttributeError", messages |-> messages]
        ELSE IF ~EqStr(DictGet(event, "type", JNull), "item.completed")
        THEN ExtractLoop(lines, i + 1, messages)
        ELSE LET item == DictGet(event, "item", EmptyDict) IN
          IF ~HasGet(item) THEN [exc |-> "AttributeError", messages |-> messages]
          ELSE IF ~EqStr(DictGet(item, "type", JNull), "agent_message")
          THEN ExtractLoop(lines, i + 1, messages)
          ELSE LET text == DictGet(item, "text", JStr("")) IN
            IF Truthy(text)
            THEN ExtractLoop(lines, i + 1, Append(messages, text))
            ELSE ExtractLoop(lines, i + 1, messages)

\* "\n\n".join(messages) for a list of str.
RECURSIVE JoinBlankLine(_)
JoinBlankLine(messages) ==
    IF messages = << >> THEN ""
    ELSE IF Len(messages) = 1 THEN messages[1].str
    ELSE messages[1].str \o "\n\n" \o JoinBlankLine(Tail(messages))

extract_agent_messages(lines) ==
    LET loop == ExtractLoop(lines, 1, << >>) IN
    IF loop.exc # "none" THEN [exc |-> loop.exc, value |-> ""]
    ELSE IF \E k \in 1..Len(loop.messages) : loop.messages[k].kind # "str"
    THEN [exc |-> "TypeError", value |-> ""]
    ELSE [exc |-> "none", value |-> JoinBlankLine(loop.messages)]

(***************************************************************************)
(* Names and agent:task pairs are strings of characters, modelled as       *)
(* sequences of one-character strings.                                     *)
(***************************************************************************)
Str1(a) == <<a>>
SubStr(s, i, j) == IF i > j THEN << >> ELSE SubSeq(s, i, j)

\* The characters of the class [a-zA-Z0-9_-] that occur in the model.
NameChars == {"a", "b", "c", "t", "u", "0", "1", "2", "_", "-"}
Whitespace == {" ", "\n"}

\* re.match of AGENT_NAME_PATTERN, ^[a-zA-Z0-9_-]+$ : `$` matches at the end
\* of the string and also just before a newline that ends the string.
AGENT_NAME_PATTERN_match(name) ==
    LET n == Len(name)
        body == IF n > 0 /\ name[n] = "\n" THEN n - 1 ELSE n
    IN  /\ body >= 1
        /\ \A k \in 1..body : name[k] \in NameChars

\* validate_agent_name: "ok", or the ValueError it raises.
validate_agent_name(name) ==
    IF name = << >> THEN "empty"
    ELSE IF ~AGENT_NAME_PATTERN_match(name) THEN "invalid"
    ELSE IF name[1] = "-" THEN "hyphen"
    ELSE "ok"

\* str.strip(): leading and trailing whitespace removed.
RECURSIVE LStrip(_)
LStrip(s) == IF s # << >> /\ s[1] \in Whitespace THEN LStrip(Tail(s)) ELSE s
RECURSIVE RStrip(_)
RStrip(s) ==
    IF s # << >> /\ s[Len(s)] \in Whitespace THEN RStrip(SubStr(s, 1, Len(s) - 1)) ELSE s
StrStrip(s) == RStrip(LStrip(s))

\* Index of the first colon of s, 0 when it has none.
FirstColon(s) ==
    IF \E k \in 1..Len(s) : s[k] = ":"
    THEN CHOOSE k \in 1..Len(s) : s[k] = ":" /\ \A j \in 1..(k - 1) : s[j] # ":"
    ELSE 0

\* re.match(r'^([^:]+):Q(.+)Q$', pair) for a quote character Q: the groups,
\* or matched = FALSE.  `.` matches no newline; `$` as above.
QuotedMatch(pair, q) ==
    LET n == Len(pair)
        c == FirstColon(pair)
        last == IF n > 0 /\ pair[n] = "\n" THEN n - 1 ELSE n
        ok == /\ c > 1
              /\ c + 1 < last
              /\ pair[c + 1] = q
              /\ pair[last] = q
              /\ last - 1 >= c + 2
              /\ \A k \in (c + 2)..(last - 1) : pair[k] # "\n"
    IN  IF ok
        THEN [matched |-> TRUE, agent |-> SubStr(pair, 1, c - 1),
              task |-> SubStr(pair, c + 2, last - 1)]
        ELSE [matched |-> FALSE, agent |-> << >>, task |-> << >>]

\* parse_agent_task_pair: the pair (agent, task), or the ValueError raised.
parse_agent_task_pair(pair) ==
    LET dq == QuotedMatch(pair, "\"")
        sq == QuotedMatch(pair, "'")
        c == FirstColon(pair)
        found == dq.matched \/ sq.matched \/ c > 0
        agent0 == IF dq.matched THEN dq.agent
                  ELSE IF sq.matched THEN sq.agent
                  ELSE SubStr(pair, 1, c - 1)
        task0 == IF dq.matched THEN dq.task
                 ELSE IF sq.matched THEN sq.task
                 ELSE SubStr(pair, c + 1, Len(pair))
        agent == StrStrip(agent0)
        task == StrStrip(task0)
    IN  IF ~found THEN [error |-> "format", agent |-> << >>, task |-> << >>]
        ELSE IF validate_agent_name(agent) # "ok"
        THEN [error |-> validate_agent_name(agent), agent |-> << >>, task |-> << >>]
        ELSE IF task = << >> THEN [error |-> "empty task", agent |-> << >>, task |-> << >>]
        ELSE [error |-> "none", agent |-> agent, task |-> task]

(***************************************************************************)
(* validate_command_name (core/commands.py).                               *)
(***************************************************************************)
\* What `$` lets a pattern end at: the whole string, or the string without
\* the newline that ends it.
BeforeFinalNewline(name) ==
    IF name # << >> /\ name[Len(name)] = "\n" THEN SubStr(name, 1, Len(name) - 1) ELSE name
\* `^/?`: one optional leading slash.
AfterOptionalSlash(s) == IF s # << >> /\ s[1] = "/" THEN Tail(s) ELSE s

\* re.match of COMMAND_NAME_PATTERN, ^/?[a-zA-Z0-9_-]+$
COMMAND_NAME_PATTERN_match(name) ==
    LET r == AfterOptionalSlash(BeforeFinalNewline(name)) IN
    /\ r # << >>
    /\ \A k \in 1..Len(r) : r[k] \in NameChars

\* re.match of NAMESPACED_COMMAND_PATTERN, ^/?([a-zA-Z0-9_-]+):([a-zA-Z0-9_-]+)$
NAMESPACED_COMMAND_PATTERN_match(name) ==
    LET r == AfterOptionalSlash(BeforeFinalNewline(name))
        c == FirstColon(r)
    IN  /\ c > 1 /\ c < Len(r)
        /\ \A k \in 1..Len(r) : k # c => r[k] \in NameChars

\* str.lstrip("/"): every leading slash removed.
RECURSIVE LStripSlash(_)
LStripSlash(s) == IF s # << >> /\ s[1] = "/" THEN LStripSlash(Tail(s)) ELSE s

\* Whether a part of clean_name.split(":") starts with a hyphen.
PartStartsWithHyphen(clean_name) ==
    \/ clean_name[1] = "-"
    \/ \E k \in 1..(Len(clean_name) - 1) : clean_name[k] = ":" /\ clean_name[k + 1] = "-"

\* validate_command_name: the normalized name, or the ValueError raised.
validate_command_name(name) ==
    LET clean_name == LStripSlash(name)
        bad(e) == [error |-> e, clean_name |-> << >>]
    IN  IF name = << >> THEN bad("empty")
        ELSE IF clean_name = << >> THEN bad("just slash")
        ELSE IF (\E k \in 1..Len(clean_name) : clean_name[k] = ":")
                /\ ~NAMESPACED_COMMAND_PATTERN_match(name)
        THEN bad("invalid namespaced")
        ELSE IF (\A k \in 1..Len(clean_name) : clean_name[k] # ":")
                /\ ~COMMAND_NAME_PATTERN_match(name)
        THEN bad("invalid")
        ELSE IF PartStartsWithHyphen(clean_name) THEN bad("hyphen")
        ELSE [error |-> "none", clean_name |-> clean_name]

(***************************************************************************)
(* SpecExtract: extract_agent_messages applied to every input of at most   *)
(* MaxLen lines of AllLines.                                               *)
(***************************************************************************)
SeqsUpTo(S, n) == UNION {[1..k -> S] : k \in 0..n}

NoResult == [exc |-> "pending", value |-> ""]
NoNameResult == [error |-> "pending", agent |-> << >>, task |-> << >>]

\* Environments: each variable has a value or is unset.  The supervisor
\* starts with CODEX_HOME unset or set to the user's own directory.
EnvNames == {"PATH", "CODEX_HOME"}
Unset == "<unset>"
NoEnv == [k \in EnvNames |-> Unset]
Environments ==
    { [k \in EnvNames |-> IF k = "PATH" THEN "/usr/bin" ELSE Unset],
      [k \in EnvNames |-> IF k = "PATH" THEN "/usr/bin" ELSE "/home/user/.codex"] }
\* setup_codex_home(): the absolute path of .subspace/codex-subagent.
SandboxHome == "/work/.subspace/codex-subagent"

NoInterpResult == <<"pending">>
IdleInterp == iprompt = << >> /\ iargs = << >> /\ ipc = "idle" /\ iresult = NoInterpResult
NoFile == [exists |-> FALSE, content |-> << >>]
IdleSetup == agents_file = NoFile /\ setup_out = "idle" /\ setup_ret = 0 /\ setups = 0
IdleTools == IdleInterp /\ IdleSetup
IdleEquiv == sub = "none" /\ IdleTools
IdleCli ==
    /\ ccmd = "none" /\ carg = << >> /\ cpc = "idle"
    /\ lookups = << >> /\ launched = << >> /\ cret = 0
    /\ IdleEquiv
IdleNames == ntext = << >> /\ npc = "idle" /\ nresult = NoNameResult /\ IdleCli

IdleBatch ==
    /\ pairs = << >> /\ output_format = "text" /\ bpc = "idle" /\ requests = << >>
    /\ rpc = << >> /\ proc = << >> /\ start_time = << >> /\ wait_start = << >>
    /\ nread = 0 /\ jsonl_lines = << >> /\ outcome = << >> /\ done_at = << >>
    /\ stdin = << >> /\ emitted = << >>
    /\ os_environ = NoEnv /\ env = << >> /\ stderr_pipe = << >>
    /\ reported = << >> /\ all_results = << >> /\ stdout = << >>
    /\ retval = 0 /\ now = 0

InitExtract ==
    /\ xlines \in SeqsUpTo(AllLines, MaxLen)
    /\ xpc = "input"
    /\ xresult = NoResult
    /\ IdleNames
    /\ IdleBatch

ExtractCall ==
    /\ xpc = "input"
    /\ xresult' = extract_agent_messages(xlines)
    /\ xpc' = "done"
    /\ UNCHANGED xlines
    /\ UNCHANGED <<nameVars, cliVars, equivVars, toolVars, batchVars>>

NextExtract == ExtractCall

SpecExtract == InitExtract /\ [][NextExtract]_vars

(***************************************************************************)
(* SpecNames: validate_agent_name, parse_agent_task_pair and               *)
(* validate_command_name applied to every name of at most MaxNameLen       *)
(* characters of NameAlphabet, to every text of at most MaxPairLen         *)
(* characters of PairAlphabet, and to some longer texts.                   *)
(***************************************************************************)
NameAlphabet == {"a", "0", "_", "-", " ", "\n", "/", "\\", ".", "@", ":"}
PairAlphabet == {"a", "-", ":", "\"", "'", " ", "\n", "/"}
PairSamples ==
    { <<"a", ":", "\"", "t", " ", "u", "\"">>,
      <<"a", ":", "\"", "t", "\n", "u", "\"">>,
      <<"a", ":", "\"", "t", "\"", "\n">>,
      <<" ", "a", "-", "b", " ", ":", " ", "t", " ">>,
      <<"a", ":", "t", ":", "u">> }

InitNames ==
    /\ ntext \in SeqsUpTo(NameAlphabet, MaxNameLen) \cup SeqsUpTo(PairAlphabet, MaxPairLen)
                    \cup PairSamples
    /\ npc = "input"
    /\ nresult = NoNameResult
    /\ IdleCli
    /\ xlines = << >> /\ xpc = "idle" /\ xresult = NoResult
    /\ IdleBatch

\* validate_agent_name(ntext): returns, or raises ValueError.
ValidateCall ==
    /\ npc = "input"
    /\ nresult' = [error |-> validate_agent_name(ntext), agent |-> << >>, task |-> << >>]
    /\ npc' = "validated"
    /\ UNCHANGED ntext
    /\ UNCHANGED <<extractVars, cliVars, equivVars, toolVars, batchVars>>

\* parse_agent_task_pair(ntext): returns (agent, task), or raises ValueError.
ParseCall ==
    /\ npc = "input"
    /\ nresult' = parse_agent_task_pair(ntext)
    /\ npc' = "parsed"
    /\ UNCHANGED ntext
    /\ UNCHANGED <<extractVars, cliVars, equivVars, toolVars, batchVars>>

\* validate_command_name(ntext): returns the normalized name, or raises
\* ValueError.
ValidateCommandCall ==
    /\ npc = "input"
    /\ nresult' = validate_command_name(ntext)
    /\ npc' = "command_validated"
    /\ UNCHANGED ntext
    /\ UNCHANGED <<extractVars, cliVars, equivVars, toolVars, batchVars>>

NextNames == ValidateCall \/ ParseCall \/ ValidateCommandCall

SpecNames == InitNames /\ [][NextNames]_vars

(***************************************************************************)
(* The batch: run_parallel, _run_parallel_async and one _run_codex_async   *)
(* task per request.                                                       *)
(***************************************************************************)
\* The pairs given on the command line, and the agents the sources hold.
PairAT == <<"a", ":", "t">>
PairBQuoted == <<"b", ":", "'", "u", "'">>
PairEmptyTask == <<"a", ":">>
PairNoColon == <<"a", "t">>
PairHyphen == <<"-", "a", ":", "t">>
PairUnknown == <<"c", ":", "t">>
PairInputs == {PairAT, PairBQuoted, PairEmptyTask, PairNoColon, PairHyphen, PairUnknown}
KnownAgents == {Str1("a"), Str1("b")}

\* find_agent: whether some source holds <name>.md (a name that passed
\* validate_agent_name has no '@' prefix and no '.md' suffix to clean).
find_agent(name) == name \in KnownAgents

\* The lines a subprocess of the batch may write, and its exit codes
\* (Python reports a subprocess ended by signal n as -n: -1 is SIGHUP).
BatchLines == {LineMsgA, LineNotJson, LineBlank, LineArray}
ExitCodes == {0, 2, -1}

\* AgentResult, and what a task ends with.
AgentResult(agent, output, returncode, elapsed, error) ==
    [agent |-> agent, output |-> output, returncode |-> returncode,
     elapsed |-> elapsed, error |-> error]
NoAgentResult == AgentResult(<< >>, "", 0, 0, "None")
Pending == [state |-> "pending", exc |-> "", res |-> NoAgentResult]
Returned(res) == [state |-> "result", exc |-> "", res |-> res]
Raised(exc) == [state |-> "exception", exc |-> exc, res |-> NoAgentResult]

\* A subprocess: its state and, once it has exited, proc.returncode.
NotStarted == [state |-> "none", code |-> 0]
Running == [state |-> "running", code |-> 0]
Killed == [state |-> "killed", code |-> 0]
Exited(code) == [state |-> "exited", code |-> code]

\* The subprocess's input: how many payload documents were written to it
\* and whether the supervisor has closed it.
Untouched == [docs |-> 0, closed |-> FALSE]

\* Mutant of WrittenAndClosed: the payload is written and the input left open.
WrittenLeftOpen == [docs |-> 1, closed |-> FALSE]

WrittenAndClosed == [docs |-> 1, closed |-> TRUE]

\* Mutant of SubprocessEnv: a CODEX_HOME that is already set is kept.
SubprocessEnvKeepsExisting(environ, codex_home) ==
    IF environ["CODEX_HOME"] # Unset THEN environ
    ELSE [environ EXCEPT !["CODEX_HOME"] = codex_home]

\* env = os.environ.copy(); env["CODEX_HOME"] = str(codex_home)
SubprocessEnv(environ, codex_home) == [environ EXCEPT !["CODEX_HOME"] = codex_home]

\* The launch fails with FileNotFoundError or another OSError.
LaunchErrors == {"Codex binary not found", "Failed to start subprocess"}

\* Mutant of LaunchFailure: a failed launch is reported like a timeout.
LaunchFailureAsTimeout(agent_name, error) == AgentResult(agent_name, "", -1, 0, error)

\* The result returned when the subprocess could not be launched.
LaunchFailure(agent_name, error) == AgentResult(agent_name, "", 1, 0, error)

TimeoutMessage == "Timeout after " \o ToString(Timeout) \o "s"

\* f"{agent_name}-{idx}" for the 0-based index idx, and agent_id.rsplit("-", 1)[0].
IdxStr(idx) == Str1(<<"0", "1", "2", "3", "4", "5", "6", "7", "8", "9">>[idx + 1])

\* Mutant of agent_id_of: the identifier is the agent name alone.
AgentIdWithoutIndex(agent_name, idx) == agent_name

agent_id_of(agent_name, idx) == agent_name \o Str1("-") \o IdxStr(idx)
RsplitHead(s) ==
    IF \E k \in 1..Len(s) : s[k] = "-"
    THEN LET k == CHOOSE k \in 1..Len(s) :
                      s[k] = "-" /\ \A j \in (k + 1)..Len(s) : s[j] # "-"
         IN SubStr(s, 1, k - 1)
    ELSE s

\* A line printed on the supervisor's standard output.  A tagged event
\* ("event") is {"agent_id", "agent_name", "event"}, its event being
\* json.loads of `line`; a "raw" line is `line` itself; "complete" and
\* "block" are what on_result prints for the result `res`.  `run` records
\* the run whose code printed the line; it is not part of the printed text.
Printed(kind, id, name, line, run, res) ==
    [kind |-> kind, agent_id |-> id, agent_name |-> name,
     line |-> line, run |-> run, res |-> res]

Runs == 1..Len(requests)
agent_name_of(i) == requests[i].agent
agent_id(i) == agent_id_of(agent_name_of(i), i - 1)

\* Mutant of MaxReturncode: the code of the last result stands for the batch.
LastReturncode(results) ==
    IF results = << >> THEN 0 ELSE results[Len(results)].returncode

RECURSIVE SeqMax(_)
SeqMax(codes) ==
    IF Len(codes) = 1 THEN codes[1]
    ELSE LET m == SeqMax(Tail(codes)) IN IF codes[1] >= m THEN codes[1] ELSE m
\* max((r.returncode for r in all_results), default=0)
MaxReturncode(results) ==
    IF results = << >> THEN 0
    ELSE SeqMax([k \in 1..Len(results) |-> results[k].returncode])

\* The agent names of a list of requests.
AgentsOf(reqs) == [k \in 1..Len(reqs) |-> reqs[k].agent]

\* Mutant of ParseLoop: a pair that does not parse, or whose agent is not
\* found, is skipped and the rest of the batch goes on.
RECURSIVE ParseLoopSkipsBad(_, _, _)
ParseLoopSkipsBad(ps, k, reqs) ==
    IF k > Len(ps) THEN [failed |-> FALSE, requests |-> reqs, looked |-> AgentsOf(reqs)]
    ELSE LET parsed == parse_agent_task_pair(ps[k]) IN
      IF parsed.error # "none" \/ ~find_agent(parsed.agent)
      THEN ParseLoopSkipsBad(ps, k + 1, reqs)
      ELSE ParseLoopSkipsBad(ps, k + 1,
                     Append(reqs, [agent |-> parsed.agent, task |-> parsed.task]))

\* run_parallel's parsing loop: the requests, or failed = TRUE at the first
\* pair that does not parse or whose agent is not found; `looked` lists the
\* names find_agent was called with.
RECURSIVE ParseLoop(_, _, _)
ParseLoop(ps, k, reqs) ==
    IF k > Len(ps) THEN [failed |-> FALSE, requests |-> reqs, looked |-> AgentsOf(reqs)]
    ELSE LET parsed == parse_agent_task_pair(ps[k]) IN
      IF parsed.error # "none"
      THEN [failed |-> TRUE, requests |-> reqs, looked |-> AgentsOf(reqs)]
      ELSE IF ~find_agent(parsed.agent)
      THEN [failed |-> TRUE, requests |-> reqs,
            looked |-> Append(AgentsOf(reqs), parsed.agent)]
      ELSE ParseLoop(ps, k + 1,
                     Append(reqs, [agent |-> parsed.agent, task |-> parsed.task]))

IdleExtract == xlines = << >> /\ xpc = "idle" /\ xresult = NoResult /\ IdleNames

Init ==
    /\ IdleExtract
    /\ pairs \in SeqsUpTo(PairInputs, MaxRuns)
    /\ os_environ \in Environments
    /\ output_format \in {"text", "jsonl"}
    /\ bpc = "parse"
    /\ requests = << >>
    /\ rpc = << >> /\ proc = << >> /\ start_time = << >> /\ wait_start = << >>
    /\ nread = 0 /\ jsonl_lines = << >> /\ outcome = << >> /\ done_at = << >>
    /\ stdin = << >> /\ emitted = << >>
    /\ env = << >> /\ stderr_pipe = << >>
    /\ reported = << >>
    /\ all_results = << >>
    /\ stdout = << >>
    /\ retval = 0
    /\ now = 0

runVars == <<rpc, proc, start_time, wait_start, nread, jsonl_lines, stdin, emitted,
             env, stderr_pipe, outcome, done_at>>

\* run_parallel up to setup_codex_home: parse every pair and look its agent up.
ParsePairs ==
    /\ bpc = "parse"
    /\ LET loop == ParseLoop(pairs, 1, << >>) IN
         IF loop.failed \/ loop.requests = << >>
         THEN /\ bpc' = "returned"
              /\ retval' = 1
              /\ UNCHANGED requests
         ELSE /\ bpc' = "create"
              /\ requests' = loop.requests
              /\ UNCHANGED retval
    /\ UNCHANGED <<pairs, os_environ, output_format, runVars, reported, all_results, stdout,
                   now>>
    /\ UNCHANGED sideVars

\* _run_parallel_async up to the await of gather: one task per request.
CreateTasks ==
    /\ bpc = "create"
    /\ bpc' = "gather"
    /\ rpc' = [i \in Runs |-> "spawn"]
    /\ proc' = [i \in Runs |-> NotStarted]
    /\ start_time' = [i \in Runs |-> 0]
    /\ wait_start' = [i \in Runs |-> 0]
    /\ UNCHANGED nread
    /\ jsonl_lines' = [i \in Runs |-> << >>]
    /\ stdin' = [i \in Runs |-> Untouched]
    /\ emitted' = [i \in Runs |-> << >>]
    /\ env' = [i \in Runs |-> NoEnv]
    /\ stderr_pipe' = [i \in Runs |-> 0]
    /\ outcome' = [i \in Runs |-> Pending]
    /\ done_at' = [i \in Runs |-> 0]
    /\ reported' = [i \in Runs |-> FALSE]
    /\ UNCHANGED <<pairs, os_environ, output_format, requests, all_results, stdout, retval,
                   now>>
    /\ UNCHANGED sideVars

\* A task ends: with an AgentResult it returns or an exception it raises.
\* Its pending wait is gone with it.
Finish(i, o) ==
    /\ rpc' = [rpc EXCEPT ![i] = "done"]
    /\ outcome' = [outcome EXCEPT ![i] = o]
    /\ done_at' = [done_at EXCEPT ![i] = now]
    /\ wait_start' = [wait_start EXCEPT ![i] = 0]

batchFrame == <<pairs, os_environ, output_format, bpc, requests, reported, all_results,
                retval>>

\* _run_codex_async up to create_subprocess_exec.
Spawn(i) ==
    /\ bpc = "gather" /\ rpc[i] = "spawn"
    /\ start_time' = [start_time EXCEPT ![i] = now]
    /\ \/ /\ proc' = [proc EXCEPT ![i] = Running]
          /\ rpc' = [rpc EXCEPT ![i] = "write"]
          /\ UNCHANGED <<outcome, done_at, wait_start>>
       \/ /\ \E error \in LaunchErrors :
                Finish(i, Returned(LaunchFailure(agent_name_of(i), error)))
          /\ UNCHANGED proc
    /\ UNCHANGED <<nread, jsonl_lines, stdout, now, batchFrame>>
    /\ UNCHANGED <<stdin, emitted>>
    /\ env' = [env EXCEPT ![i] = SubprocessEnv(os_environ, SandboxHome)]
    /\ UNCHANGED stderr_pipe
    /\ UNCHANGED sideVars

\* The payload is written, drained and the input closed; a subprocess that
\* has closed its input (or exited) makes drain raise.
WritePayload(i) ==
    /\ bpc = "gather" /\ rpc[i] = "write"
    /\ \/ /\ rpc' = [rpc EXCEPT ![i] = "read"]
          /\ wait_start' = [wait_start EXCEPT ![i] = now]
          /\ stdin' = [stdin EXCEPT ![i] = WrittenAndClosed]
          /\ UNCHANGED <<proc, outcome, done_at>>
       \/ /\ Finish(i, Raised("BrokenPipeError"))
          /\ \E p \in {Running, Exited(0)} : proc' = [proc EXCEPT ![i] = p]
          /\ UNCHANGED stdin
    /\ UNCHANGED emitted
    /\ UNCHANGED <<start_time, nread, jsonl_lines, stdout, now, batchFrame>>
    /\ UNCHANGED <<env, stderr_pipe>>
    /\ UNCHANGED sideVars

\* Mutant of ForwardTagged: every task tags with the identifier of the last
\* request (the loop variable captured late).
ForwardTaggedLastId(i, line_str) ==
    Printed("event", agent_id(Len(requests)), agent_name_of(Len(requests)), line_str, i,
            NoAgentResult)

\* What the read loop does with one line that readline returned.
ForwardTagged(i, line_str) ==
    Printed("event", agent_id(i), agent_name_of(i), line_str, i, NoAgentResult)
ForwardRaw(i, line_str) ==
    Printed("raw", << >>, << >>, line_str, i, NoAgentResult)
Forwarded(i, line_str) ==
    IF JSONDecodeError(line_str) THEN ForwardRaw(i, line_str)
    ELSE ForwardTagged(i, line_str)

\* wait_for(readline) returns a line before its timer fires.
ReadLine(i, line) ==
    /\ bpc = "gather" /\ rpc[i] = "read"
    /\ now - wait_start[i] < Timeout
    /\ nread < MaxLines
    /\ nread' = nread + 1
    /\ wait_start' = [wait_start EXCEPT ![i] = now]
    /\ LET line_str == Strip(line) IN
         IF line_str = ""
         THEN UNCHANGED <<stdout, jsonl_lines>>
         ELSE IF output_format = "jsonl"
         THEN /\ stdout' = Append(stdout, Forwarded(i, line_str))
              /\ UNCHANGED jsonl_lines
         ELSE /\ jsonl_lines' = [jsonl_lines EXCEPT ![i] = Append(@, line_str)]
              /\ UNCHANGED stdout
    /\ UNCHANGED <<rpc, proc, start_time, outcome, done_at, now, batchFrame>>
    /\ emitted' = [emitted EXCEPT ![i] = Append(@, line)]
    /\ UNCHANGED stdin
    /\ UNCHANGED <<env, stderr_pipe>>
    /\ UNCHANGED sideVars

\* wait_for(readline) returns b"": the subprocess closed its output.
ReadEOF(i) ==
    /\ bpc = "gather" /\ rpc[i] = "read"
    /\ now - wait_start[i] < Timeout
    /\ rpc' = [rpc EXCEPT ![i] = "wait"]
    /\ UNCHANGED <<proc, start_time, wait_start, nread, jsonl_lines, outcome, done_at,
                   stdout, now, batchFrame>>
    /\ UNCHANGED <<stdin, emitted>>
    /\ UNCHANGED <<env, stderr_pipe>>
    /\ UNCHANGED sideVars

\* Mutant of ReadTimeout: the kill reaches every subprocess of the batch.
ReadTimeoutKillsAll(i) ==
    /\ bpc = "gather" /\ rpc[i] = "read"
    /\ now - wait_start[i] >= Timeout
    /\ proc' = [j \in Runs |-> IF proc[j].state = "running" THEN Killed ELSE proc[j]]
    /\ Finish(i, Returned(AgentResult(agent_name_of(i), "", -1, now - start_time[i],
                                      TimeoutMessage)))
    /\ UNCHANGED <<start_time, nread, jsonl_lines, stdout, now, batchFrame>>
    /\ UNCHANGED <<stdin, emitted>>
    /\ UNCHANGED <<env, stderr_pipe>>
    /\ UNCHANGED sideVars

\* Mutant of ReadTimeout: the timeout result is returned and the subprocess
\* is left running.
ReadTimeoutNoKill(i) ==
    /\ bpc = "gather" /\ rpc[i] = "read"
    /\ now - wait_start[i] >= Timeout
    /\ UNCHANGED proc
    /\ Finish(i, Returned(AgentResult(agent_name_of(i), "", -1, now - start_time[i],
                                      TimeoutMessage)))
    /\ UNCHANGED <<start_time, nread, jsonl_lines, stdout, now, batchFrame>>
    /\ UNCHANGED <<stdin, emitted>>
    /\ UNCHANGED <<env, stderr_pipe>>
    /\ UNCHANGED sideVars

\* The timer of wait_for(readline) fires: asyncio.TimeoutError.
ReadTimeout(i) ==
    /\ bpc = "gather" /\ rpc[i] = "read"
    /\ now - wait_start[i] >= Timeout
    /\ proc' = [proc EXCEPT ![i] = Killed]
    /\ Finish(i, Returned(AgentResult(agent_name_of(i), "", -1, now - start_time[i],
                                      TimeoutMessage)))
    /\ UNCHANGED <<start_time, nread, jsonl_lines, stdout, now, batchFrame>>
    /\ UNCHANGED <<stdin, emitted>>
    /\ UNCHANGED <<env, stderr_pipe>>
    /\ UNCHANGED sideVars

\* What _run_codex_async ends with once proc.wait() has returned.
Completion(i, code) ==
    LET extracted == extract_agent_messages(jsonl_lines[i]) IN
    IF output_format = "jsonl"
    THEN Returned(AgentResult(agent_name_of(i), "", code, now - start_time[i], "None"))
    ELSE IF extracted.exc # "none" THEN Raised(extracted.exc)
    ELSE Returned(AgentResult(agent_name_of(i), extracted.value, code,
                              now - start_time[i], "None"))

\* proc.wait() returns: the subprocess has exited with `code`.
WaitExit(i, code) ==
    /\ bpc = "gather" /\ rpc[i] = "wait"
    /\ proc' = [proc EXCEPT ![i] = Exited(code)]
    /\ Finish(i, Completion(i, code))
    /\ UNCHANGED <<start_time, nread, jsonl_lines, stdout, now, batchFrame>>
    /\ UNCHANGED <<stdin, emitted>>
    /\ UNCHANGED <<env, stderr_pipe>>
    /\ UNCHANGED sideVars

\* Mutant of AllDone: gather returns with the first task that ends.
AnyDone == \E i \in Runs : rpc[i] = "done"

AllDone == \A i \in Runs : rpc[i] = "done"

\* The clock advances while every task waits and no timer is due.
Tick ==
    /\ bpc = "gather"
    /\ now < MaxTime
    /\ ~AllDone
    /\ \A i \in Runs : /\ rpc[i] \in {"read", "wait", "done"}
                       /\ rpc[i] = "read" => now - wait_start[i] < Timeout
    /\ now' = now + 1
    /\ UNCHANGED <<runVars, stdout, batchFrame>>
    /\ UNCHANGED sideVars

\* The AgentResult the loop after gather makes of a task's outcome.
ResultOf(i) ==
    IF outcome[i].state = "exception"
    THEN AgentResult(RsplitHead(agent_id(i)), "", 1, 0, outcome[i].exc)
    ELSE outcome[i].res

\* on_result: what run_parallel prints for a result.
OnResultPrint(i, result) ==
    IF output_format = "jsonl"
    THEN Printed("complete", agent_id(i), result.agent, "", i, result)
    ELSE Printed("block", << >>, result.agent, "", i, result)

\* gather returns once every task has ended.  What follows runs without
\* waiting: the loop over the results in task order, calling on_complete
\* (on_result appends to all_results and prints) for each, then
\* run_parallel's totals and its return value.
GatherReturns ==
    /\ bpc = "gather" /\ AllDone
    /\ reported' = [i \in Runs |-> TRUE]
    /\ all_results' = all_results \o [i \in Runs |-> ResultOf(i)]
    /\ stdout' = stdout \o [i \in Runs |-> OnResultPrint(i, ResultOf(i))]
    /\ bpc' = "returned"
    /\ retval' = MaxReturncode(all_results')
    /\ UNCHANGED <<pairs, os_environ, output_format, requests, runVars, nread, now>>
    /\ UNCHANGED sideVars

Next ==
    \/ ParsePairs
    \/ CreateTasks
    \/ \E i \in Runs : Spawn(i)
    \/ \E i \in Runs : WritePayload(i)
    \/ \E i \in Runs : \E line \in BatchLines : ReadLine(i, line)
    \/ \E i \in Runs : ReadEOF(i)
    \/ \E i \in Runs : ReadTimeout(i)
    \/ \E i \in Runs : \E code \in ExitCodes : WaitExit(i, code)
    \/ Tick
    \/ GatherReturns

Spec == Init /\ [][Next]_vars

(***************************************************************************)
(* The single-run path: run_agent with _run_codex_sync.  The one run is    *)
(* run 1 of the per-run variables; bpc tells where run_agent is:           *)
(* "run_agent" (inside _run_codex_sync), "returned", or "crashed" when an  *)
(* exception left run_agent.                                               *)
(***************************************************************************)
InitSync ==
    /\ IdleExtract
    /\ pairs = << >>
    /\ os_environ \in Environments
    /\ output_format \in {"text", "jsonl"}
    /\ bpc = "run_agent"
    /\ requests = <<[agent |-> Str1("a"), task |-> Str1("t")]>>
    /\ rpc = <<"spawn">> /\ proc = <<NotStarted>>
    /\ start_time = <<0>> /\ wait_start = <<0>> /\ nread = 0
    /\ jsonl_lines = << << >> >> /\ outcome = <<Pending>> /\ done_at = <<0>>
    /\ stdin = <<Untouched>> /\ emitted = << << >> >>
    /\ env = <<NoEnv>> /\ stderr_pipe = <<0>>
    /\ reported = <<FALSE>>
    /\ all_results = << >>
    /\ stdout = << >>
    /\ retval = 0
    /\ now = 0

\* _run_codex_sync up to subprocess.Popen.
SyncSpawn ==
    /\ bpc = "run_agent" /\ rpc[1] = "spawn"
    /\ start_time' = [start_time EXCEPT ![1] = now]
    /\ \/ /\ proc' = [proc EXCEPT ![1] = Running]
          /\ rpc' = [rpc EXCEPT ![1] = "write"]
          /\ UNCHANGED <<outcome, done_at, wait_start>>
       \/ /\ \E error \in LaunchErrors :
                Finish(1, Returned(LaunchFailure(agent_name_of(1), error)))
          /\ UNCHANGED proc
    /\ UNCHANGED <<nread, jsonl_lines, stdout, now, batchFrame>>
    /\ UNCHANGED <<stdin, emitted>>
    /\ env' = [env EXCEPT ![1] = SubprocessEnv(os_environ, SandboxHome)]
    /\ UNCHANGED stderr_pipe
    /\ UNCHANGED sideVars

\* proc.stdin.write, flush, close: outside any try, so an error of the pipe
\* leaves _run_codex_sync as an exception.
SyncWritePayload ==
    /\ bpc = "run_agent" /\ rpc[1] = "write"
    /\ \/ /\ rpc' = [rpc EXCEPT ![1] = "read"]
          /\ stdin' = [stdin EXCEPT ![1] = WrittenAndClosed]
          /\ UNCHANGED <<proc, outcome, done_at, wait_start>>
       \/ /\ Finish(1, Raised("BrokenPipeError"))
          /\ \E p \in {Running, Exited(0)} : proc' = [proc EXCEPT ![1] = p]
          /\ UNCHANGED stdin
    /\ UNCHANGED emitted
    /\ UNCHANGED <<start_time, nread, jsonl_lines, stdout, now, batchFrame>>
    /\ UNCHANGED <<env, stderr_pipe>>
    /\ UNCHANGED sideVars

\* One iteration of `for line in proc.stdout`: the read blocks until the
\* subprocess writes a line, however long that takes.
SyncReadLine(line) ==
    /\ bpc = "run_agent" /\ rpc[1] = "read"
    /\ nread < MaxLines
    /\ nread' = nread + 1
    /\ LET line_str == Strip(line) IN
         IF line_str = ""
         THEN UNCHANGED <<stdout, jsonl_lines>>
         ELSE IF output_format = "jsonl"
         THEN /\ stdout' = Append(stdout, Printed("raw", << >>, << >>, line_str, 1,
                                                  NoAgentResult))
              /\ UNCHANGED jsonl_lines
         ELSE /\ jsonl_lines' = [jsonl_lines EXCEPT ![1] = Append(@, line_str)]
              /\ UNCHANGED stdout
    /\ UNCHANGED <<rpc, proc, start_time, wait_start, outcome, done_at, now, batchFrame>>
    /\ emitted' = [emitted EXCEPT ![1] = Append(@, line)]
    /\ UNCHANGED stdin
    /\ UNCHANGED <<env, stderr_pipe>>
    /\ UNCHANGED sideVars

\* The subprocess closed its output: the loop ends and proc.wait(timeout)
\* starts its timer.
SyncReadEOF ==
    /\ bpc = "run_agent" /\ rpc[1] = "read"
    /\ rpc' = [rpc EXCEPT ![1] = "wait"]
    /\ wait_start' = [wait_start EXCEPT ![1] = now]
    /\ UNCHANGED <<proc, start_time, nread, jsonl_lines, outcome, done_at, stdout, now,
                   batchFrame>>
    /\ UNCHANGED <<stdin, emitted>>
    /\ UNCHANGED <<env, stderr_pipe>>
    /\ UNCHANGED sideVars

\* What _run_codex_sync ends with once proc.wait has returned.
SyncCompletion(code) ==
    LET extracted == extract_agent_messages(jsonl_lines[1]) IN
    IF output_format = "jsonl"
    THEN Returned(AgentResult(agent_name_of(1), "", code, now - start_time[1], "None"))
    ELSE IF extracted.exc # "none" THEN Raised(extracted.exc)
    ELSE Returned(AgentResult(agent_name_of(1), extracted.value, code,
                              now - start_time[1], "None"))

\* proc.wait(timeout) returns: the subprocess has exited with `code`.
SyncWaitExit(code) ==
    /\ bpc = "run_agent" /\ rpc[1] = "wait"
    /\ now - wait_start[1] < Timeout
    /\ proc' = [proc EXCEPT ![1] = Exited(code)]
    /\ Finish(1, SyncCompletion(code))
    /\ UNCHANGED <<start_time, nread, jsonl_lines, stdout, now, batchFrame>>
    /\ UNCHANGED <<stdin, emitted>>
    /\ UNCHANGED <<env, stderr_pipe>>
    /\ UNCHANGED sideVars

\* proc.wait(timeout) raises TimeoutExpired: kill, communicate, -1.
SyncWaitTimeout ==
    /\ bpc = "run_agent" /\ rpc[1] = "wait"
    /\ now - wait_start[1] >= Timeout
    /\ proc' = [proc EXCEPT ![1] = Killed]
    /\ Finish(1, Returned(AgentResult(agent_name_of(1), "", -1, now - start_time[1],
                                      TimeoutMessage)))
    /\ UNCHANGED <<start_time, nread, jsonl_lines, stdout, now, batchFrame>>
    /\ UNCHANGED <<stdin, emitted>>
    /\ UNCHANGED <<env, stderr_pipe>>
    /\ UNCHANGED sideVars

\* The clock advances while _run_codex_sync blocks in a read or in
\* proc.wait whose timer is not due.
SyncTick ==
    /\ bpc = "run_agent"
    /\ now < MaxTime
    /\ rpc[1] \in {"read", "wait"}
    /\ rpc[1] = "wait" => now - wait_start[1] < Timeout
    /\ now' = now + 1
    /\ UNCHANGED <<runVars, nread, stdout, batchFrame>>
    /\ UNCHANGED sideVars

\* run_agent after _run_codex_sync: the error, the complete event or the text.
RunAgentReturn ==
    /\ bpc = "run_agent" /\ rpc[1] = "done"
    /\ IF outcome[1].state = "exception"
       THEN /\ bpc' = "crashed"
            /\ UNCHANGED <<stdout, retval>>
       ELSE LET result == outcome[1].res IN
            /\ bpc' = "returned"
            /\ IF result.error # "None"
               THEN /\ retval' = 1
                    /\ UNCHANGED stdout
               ELSE /\ retval' = result.returncode
                    /\ IF output_format = "jsonl"
                       THEN stdout' = Append(stdout,
                               Printed("complete", << >>, result.agent, "", 1, result))
                       ELSE IF result.output # ""
                       THEN stdout' = Append(stdout,
                               Printed("text", << >>, << >>, result.output, 1, result))
                       ELSE UNCHANGED stdout
    /\ UNCHANGED <<pairs, os_environ, output_format, requests, reported, all_results, runVars,
                   nread, now>>
    /\ UNCHANGED sideVars

NextSync ==
    \/ SyncSpawn
    \/ SyncWritePayload
    \/ \E line \in BatchLines : SyncReadLine(line)
    \/ SyncReadEOF
    \/ \E code \in ExitCodes : SyncWaitExit(code)
    \/ SyncWaitTimeout
    \/ SyncTick
    \/ RunAgentReturn

SpecSync == InitSync /\ [][NextSync]_vars

(***************************************************************************)
(* SpecRuns: both supervisors, a batch or a single run; bpc tells the two  *)
(* apart, so each behaviour is one of Spec or one of SpecSync.             *)
(***************************************************************************)
InitRuns == Init \/ InitSync
NextRuns == Next \/ NextSync
SpecRuns == InitRuns /\ [][NextRuns]_vars

(***************************************************************************)
(* SpecPipe: both supervisors with subprocesses that write to their        *)
(* standard error and otherwise finish on their own.  Both runners launch  *)
(* the subprocess with stderr=PIPE and read that pipe only in communicate  *)
(* after a kill, so what the subprocess writes stays in the pipe, which    *)
(* holds PipeCapacity chunks; the write of one more blocks the subprocess. *)
(* A subprocess that is not blocked takes its steps before the clock       *)
(* advances.                                                               *)
(***************************************************************************)
Blocked(i) == stderr_pipe[i] > PipeCapacity

\* The subprocess of run i writes a chunk to its standard error.
WriteStderr(i) ==
    /\ bpc \in {"gather", "run_agent"}
    /\ rpc[i] \in {"read", "wait"}
    /\ ~Blocked(i)
    /\ stderr_pipe' = [stderr_pipe EXCEPT ![i] = @ + 1]
    /\ UNCHANGED <<rpc, proc, start_time, wait_start, nread, jsonl_lines, stdin, emitted, env,
                   outcome, done_at, stdout, now, batchFrame>>
    /\ UNCHANGED sideVars

\* The clock advances when every subprocess still supervised is blocked.
PipeTick ==
    /\ bpc \in {"gather", "run_agent"}
    /\ \A i \in Runs : rpc[i] # "done" => Blocked(i)
    /\ Tick \/ SyncTick

NextPipe ==
    \/ ParsePairs
    \/ CreateTasks
    \/ \E i \in Runs : Spawn(i)
    \/ \E i \in Runs : WritePayload(i)
    \/ \E i \in Runs : \E line \in BatchLines : ReadLine(i, line) /\ ~Blocked(i)
    \/ \E i \in Runs : ReadEOF(i) /\ ~Blocked(i)
    \/ \E i \in Runs : ReadTimeout(i)
    \/ \E i \in Runs : \E code \in ExitCodes : WaitExit(i, code) /\ ~Blocked(i)
    \/ GatherReturns
    \/ SyncSpawn
    \/ SyncWritePayload
    \/ \E line \in BatchLines : SyncReadLine(line) /\ ~Blocked(1)
    \/ SyncReadEOF /\ ~Blocked(1)
    \/ \E code \in ExitCodes : SyncWaitExit(code) /\ ~Blocked(1)
    \/ SyncWaitTimeout
    \/ RunAgentReturn
    \/ \E i \in Runs : WriteStderr(i)
    \/ PipeTick

SpecPipe == InitRuns /\ [][NextPipe]_vars

(***************************************************************************)
(* SpecEquiv: the two supervisors side by side in collect mode.  Run 1 is  *)
(* _run_codex_sync, run 2 is _run_codex_async; each has its own copy of    *)
(* the subprocess, and the copies behave alike: the launch succeeds or     *)
(* fails for both, the input is accepted or refused for both, and every    *)
(* line, the end of the output and the exit come at the same instant with  *)
(* the same content.  A supervisor that has killed its copy or returned    *)
(* takes no part in what the subprocess does later.                        *)
(***************************************************************************)
SyncRun == 1
AsyncRun == 2
EquivRuns == {SyncRun, AsyncRun}

InitEquiv ==
    /\ xlines = << >> /\ xpc = "idle" /\ xresult = NoResult
    /\ ntext = << >> /\ npc = "idle" /\ nresult = NoNameResult
    /\ sub = "start"
    /\ pairs = << >>
    /\ output_format = "text"
    /\ bpc = "equiv"
    /\ requests = [i \in EquivRuns |-> [agent |-> Str1("a"), task |-> Str1("t")]]
    /\ rpc = [i \in EquivRuns |-> "spawn"]
    /\ proc = [i \in EquivRuns |-> NotStarted]
    /\ start_time = [i \in EquivRuns |-> 0]
    /\ wait_start = [i \in EquivRuns |-> 0]
    /\ nread = 0
    /\ jsonl_lines = [i \in EquivRuns |-> << >>]
    /\ stdin = [i \in EquivRuns |-> Untouched]
    /\ emitted = [i \in EquivRuns |-> << >>]
    /\ os_environ \in Environments
    /\ env = [i \in EquivRuns |-> NoEnv]
    /\ stderr_pipe = [i \in EquivRuns |-> 0]
    /\ outcome = [i \in EquivRuns |-> Pending]
    /\ done_at = [i \in EquivRuns |-> 0]
    /\ reported = [i \in EquivRuns |-> FALSE]
    /\ all_results = << >> /\ stdout = << >> /\ retval = 0 /\ now = 0
    /\ ccmd = "none" /\ carg = << >> /\ cpc = "idle"
    /\ lookups = << >> /\ launched = << >> /\ cret = 0
    /\ IdleTools

equivFrame == <<extractVars, nameVars, cliVars, toolVars, batchFrame, stdout, stderr_pipe>>

\* The timer a supervisor is waiting on, if any, has fired.
AsyncTimerDue == rpc[AsyncRun] = "read" /\ now - wait_start[AsyncRun] >= Timeout
SyncTimerDue == rpc[SyncRun] = "wait" /\ now - wait_start[SyncRun] >= Timeout

\* Popen and create_subprocess_exec: both launch the subprocess or both fail.
EquivLaunch ==
    /\ bpc = "equiv" /\ sub = "start"
    /\ start_time' = [i \in EquivRuns |-> now]
    /\ \/ /\ sub' = "writing"
          /\ proc' = [i \in EquivRuns |-> Running]
          /\ rpc' = [i \in EquivRuns |-> "write"]
          /\ UNCHANGED <<outcome, done_at>>
       \/ /\ sub' = "failed"
          /\ \E error \in LaunchErrors :
                outcome' = [i \in EquivRuns |->
                               Returned(LaunchFailure(agent_name_of(i), error))]
          /\ rpc' = [i \in EquivRuns |-> "done"]
          /\ done_at' = [i \in EquivRuns |-> now]
          /\ UNCHANGED proc
    /\ env' = [i \in EquivRuns |-> SubprocessEnv(os_environ, SandboxHome)]
    /\ UNCHANGED <<wait_start, nread, jsonl_lines, stdin, emitted, now, equivFrame>>

\* The payload is written and the input closed, or the subprocess refuses
\* its input and the write raises in both supervisors.
EquivWritePayload ==
    /\ bpc = "equiv" /\ \A i \in EquivRuns : rpc[i] = "write"
    /\ \/ /\ rpc' = [i \in EquivRuns |-> "read"]
          /\ stdin' = [i \in EquivRuns |-> WrittenAndClosed]
          /\ wait_start' = [wait_start EXCEPT ![AsyncRun] = now]
          /\ UNCHANGED <<outcome, done_at>>
       \/ /\ rpc' = [i \in EquivRuns |-> "done"]
          /\ outcome' = [i \in EquivRuns |-> Raised("BrokenPipeError")]
          /\ done_at' = [i \in EquivRuns |-> now]
          /\ UNCHANGED <<stdin, wait_start>>
    /\ UNCHANGED env
    /\ UNCHANGED <<sub, proc, start_time, nread, jsonl_lines, emitted, now, equivFrame>>

\* The subprocess writes a line: each supervisor that is reading takes it.
EquivLine(line) ==
    /\ bpc = "equiv" /\ sub = "writing"
    /\ \E i \in EquivRuns : rpc[i] = "read"
    /\ ~AsyncTimerDue
    /\ nread < MaxLines
    /\ nread' = nread + 1
    /\ emitted' = [i \in EquivRuns |->
                      IF rpc[i] = "read" THEN Append(emitted[i], line) ELSE emitted[i]]
    /\ jsonl_lines' = [i \in EquivRuns |->
                          IF rpc[i] = "read" /\ Strip(line) # ""
                          THEN Append(jsonl_lines[i], Strip(line)) ELSE jsonl_lines[i]]
    /\ wait_start' = [wait_start EXCEPT
                         ![AsyncRun] = IF rpc[AsyncRun] = "read" THEN now ELSE @]
    /\ UNCHANGED env
    /\ UNCHANGED <<sub, rpc, proc, start_time, stdin, outcome, done_at, now, equivFrame>>

\* The subprocess closes its output: each supervisor that is reading goes on
\* to wait for the exit, _run_codex_sync with a timer.
EquivEOF ==
    /\ bpc = "equiv" /\ sub = "writing"
    /\ \E i \in EquivRuns : rpc[i] = "read"
    /\ ~AsyncTimerDue
    /\ sub' = "closed"
    /\ rpc' = [i \in EquivRuns |-> IF rpc[i] = "read" THEN "wait" ELSE rpc[i]]
    /\ wait_start' = [wait_start EXCEPT
                         ![SyncRun] = IF rpc[SyncRun] = "read" THEN now ELSE @]
    /\ UNCHANGED env
    /\ UNCHANGED <<proc, start_time, nread, jsonl_lines, stdin, emitted, outcome,
                   done_at, now, equivFrame>>

\* The subprocess exits: each supervisor that waits for it returns.
EquivExit(code) ==
    /\ bpc = "equiv" /\ sub = "closed"
    /\ \E i \in EquivRuns : rpc[i] = "wait"
    /\ ~SyncTimerDue
    /\ sub' = "exited"
    /\ proc' = [i \in EquivRuns |-> IF rpc[i] = "wait" THEN Exited(code) ELSE proc[i]]
    /\ rpc' = [i \in EquivRuns |-> IF rpc[i] = "wait" THEN "done" ELSE rpc[i]]
    /\ outcome' = [i \in EquivRuns |->
                      IF rpc[i] # "wait" THEN outcome[i]
                      ELSE IF i = SyncRun THEN SyncCompletion(code)
                      ELSE Completion(i, code)]
    /\ done_at' = [i \in EquivRuns |-> IF rpc[i] = "wait" THEN now ELSE done_at[i]]
    /\ wait_start' = [i \in EquivRuns |-> IF rpc[i] = "wait" THEN 0 ELSE wait_start[i]]
    /\ UNCHANGED env
    /\ UNCHANGED <<start_time, nread, jsonl_lines, stdin, emitted, now, equivFrame>>

\* _run_codex_async: the timer of wait_for(readline) fires.
EquivAsyncReadTimeout ==
    /\ bpc = "equiv" /\ AsyncTimerDue
    /\ proc' = [proc EXCEPT ![AsyncRun] = Killed]
    /\ Finish(AsyncRun, Returned(AgentResult(agent_name_of(AsyncRun), "", -1,
                                             now - start_time[AsyncRun], TimeoutMessage)))
    /\ UNCHANGED env
    /\ UNCHANGED <<sub, start_time, nread, jsonl_lines, stdin, emitted, now, equivFrame>>

\* _run_codex_sync: proc.wait(timeout) raises TimeoutExpired.
EquivSyncWaitTimeout ==
    /\ bpc = "equiv" /\ SyncTimerDue
    /\ proc' = [proc EXCEPT ![SyncRun] = Killed]
    /\ Finish(SyncRun, Returned(AgentResult(agent_name_of(SyncRun), "", -1,
                                            now - start_time[SyncRun], TimeoutMessage)))
    /\ UNCHANGED env
    /\ UNCHANGED <<sub, start_time, nread, jsonl_lines, stdin, emitted, now, equivFrame>>

\* The clock advances while a supervisor waits and no timer is due.
EquivTick ==
    /\ bpc = "equiv" /\ now < MaxTime
    /\ \E i \in EquivRuns : rpc[i] \in {"read", "wait"}
    /\ ~AsyncTimerDue /\ ~SyncTimerDue
    /\ now' = now + 1
    /\ UNCHANGED <<sub, runVars, equivFrame>>

NextEquiv ==
    \/ EquivLaunch
    \/ EquivWritePayload
    \/ \E line \in BatchLines : EquivLine(line)
    \/ EquivEOF
    \/ \E code \in ExitCodes : EquivExit(code)
    \/ EquivAsyncReadTimeout
    \/ EquivSyncWaitTimeout
    \/ EquivTick

SpecEquiv == InitEquiv /\ [][NextEquiv]_vars

(***************************************************************************)
(* SpecCli: one invocation of a handler of cli.py that takes a name from   *)
(* the command line.  lookups records each call of find_agent or           *)
(* find_command that reaches the sources' directories, with the name it    *)
(* was called with; launched records each agent a subprocess is launched   *)
(* for (the run itself is the subject of Spec and SpecSync).               *)
(***************************************************************************)
CliCommands == {"run", "show", "parallel", "command_get", "command_show"}
AgentCommands == {"run", "show"}
KnownCommands == {Str1("a"), <<"a", ":", "0">>}
PairSlash == <<".", "/", ":", "t">>
CliPairInputs == PairInputs \cup {PairSlash}
\* cmd_run called with the task alone: agent_name is None.
NoAgentName == <<"None">>
\* What run_agent, run_vanilla and run_parallel may return.
RunReturns == ExitCodes \cup {1}

Lookup(kind, name) == [kind |-> kind, name |-> name]

\* find_command: validates again, then looks <clean_name>.md up.
find_command_reaches_sources(name) == validate_command_name(name).error = "none"
find_command(name) ==
    /\ validate_command_name(name).error = "none"
    /\ validate_command_name(name).clean_name \in KnownCommands

\* Mutant of NameVerdict: cmd_show passes the name on without validating it.
NameVerdictShowUnchecked(cmd, name) ==
    IF cmd = "show" THEN "ok"
    ELSE IF cmd \in AgentCommands THEN validate_agent_name(name)
    ELSE IF validate_command_name(name).error = "none" THEN "ok"
    ELSE validate_command_name(name).error

\* The validation a handler starts with: "ok", or the ValueError.
NameVerdict(cmd, name) ==
    IF cmd \in AgentCommands THEN validate_agent_name(name)
    ELSE IF validate_command_name(name).error = "none" THEN "ok"
    ELSE validate_command_name(name).error

InitCli ==
    /\ ccmd \in CliCommands
    /\ carg \in IF ccmd = "parallel" THEN SeqsUpTo(CliPairInputs, MaxRuns)
                ELSE IF ccmd = "run"
                THEN SeqsUpTo(NameAlphabet, MaxNameLen) \cup {NoAgentName}
                ELSE SeqsUpTo(NameAlphabet, MaxNameLen)
    /\ cpc = "start"
    /\ lookups = << >> /\ launched = << >> /\ cret = 0
    /\ IdleEquiv
    /\ xlines = << >> /\ xpc = "idle" /\ xresult = NoResult
    /\ ntext = << >> /\ npc = "idle" /\ nresult = NoNameResult
    /\ IdleBatch

cliFrame == <<extractVars, nameVars, equivVars, toolVars, batchVars, ccmd, carg>>

\* cmd_run with the task alone: run_vanilla, no agent name.
CmdRunVanilla ==
    /\ cpc = "start" /\ ccmd = "run" /\ carg = NoAgentName
    /\ launched' = Append(launched, NoAgentName)
    /\ \E code \in RunReturns : cret' = code
    /\ cpc' = "returned"
    /\ UNCHANGED <<lookups, cliFrame>>

\* cmd_run, cmd_show, cmd_command_get, cmd_command_show: the validation.
CmdValidate ==
    /\ cpc = "start" /\ ccmd # "parallel" /\ carg # NoAgentName
    /\ IF NameVerdict(ccmd, carg) # "ok"
       THEN cpc' = "returned" /\ cret' = 1
       ELSE cpc' = "find" /\ UNCHANGED cret
    /\ UNCHANGED <<lookups, launched, cliFrame>>

\* find_agent or find_command with the name as given.
CmdFind ==
    /\ cpc = "find"
    /\ IF ccmd \in AgentCommands
       THEN /\ lookups' = Append(lookups, Lookup("agent", carg))
            /\ IF find_agent(carg) THEN cpc' = "use" /\ UNCHANGED cret
               ELSE cpc' = "returned" /\ cret' = 1
       ELSE /\ lookups' = IF find_command_reaches_sources(carg)
                          THEN Append(lookups, Lookup("command", carg)) ELSE lookups
            /\ IF find_command(carg) THEN cpc' = "use" /\ UNCHANGED cret
               ELSE cpc' = "returned" /\ cret' = 1
    /\ UNCHANGED <<launched, cliFrame>>

\* run_parallel up to the launch: every pair parsed and its agent looked up.
CmdParallelParse ==
    /\ cpc = "start" /\ ccmd = "parallel"
    /\ LET loop == ParseLoop(carg, 1, << >>) IN
         /\ lookups' = [k \in 1..Len(loop.looked) |-> Lookup("agent", loop.looked[k])]
         /\ IF loop.failed \/ loop.requests = << >>
            THEN cpc' = "returned" /\ cret' = 1
            ELSE cpc' = "use" /\ UNCHANGED cret
    /\ UNCHANGED <<launched, cliFrame>>

\* The rest of the handler: the agent is run (run_agent, run_parallel), or
\* the details or the prompt are printed.
CmdUse ==
    /\ cpc = "use"
    /\ cpc' = "returned"
    /\ IF ccmd = "run"
       THEN /\ launched' = Append(launched, carg)
            /\ \E code \in RunReturns : cret' = code
       ELSE IF ccmd = "parallel"
       THEN /\ launched' = ParseLoop(carg, 1, << >>).looked
            /\ \E code \in RunReturns : cret' = code
       ELSE /\ cret' = 0
            /\ UNCHANGED launched
    /\ UNCHANGED <<lookups, cliFrame>>

NextCli == CmdRunVanilla \/ CmdValidate \/ CmdFind \/ CmdParallelParse \/ CmdUse

SpecCli == InitCli /\ [][NextCli]_vars

Tasks == DOMAIN rpc
TimedOut(i) ==
    /\ outcome[i].state = "result"
    /\ outcome[i].res.returncode = -1
    /\ outcome[i].res.error = TimeoutMessage
CompletedNormally(i) == outcome[i].state = "result" /\ outcome[i].res.error = "None"
IsForwarded(e) == e.kind \in {"event", "raw"}

(***************************************************************************)
(* interpolate_arguments (core/commands.py), and SpecInterp: the function  *)
(* applied to every prompt of at most MaxPromptLen characters of           *)
(* PromptAlphabet with every list of at most MaxArgs arguments of          *)
(* ArgValues, and to some longer inputs.                                   *)
(***************************************************************************)
\* Whether `old` occurs in s at position i.
OccursAt(s, old, i) ==
    /\ i + Len(old) - 1 <= Len(s)
    /\ SubStr(s, i, i + Len(old) - 1) = old
\* `old in s`
Contains(s, old) == \E i \in 1..Len(s) : OccursAt(s, old, i)

\* str.replace(old, new): the occurrences of `old` are found from left to
\* right, without overlap, in the text as it was before the call.
RECURSIVE StrReplaceFrom(_, _, _, _)
StrReplaceFrom(s, old, new, i) ==
    IF i > Len(s) THEN << >>
    ELSE IF OccursAt(s, old, i) THEN new \o StrReplaceFrom(s, old, new, i + Len(old))
    ELSE <<s[i]>> \o StrReplaceFrom(s, old, new, i + 1)
StrReplace(s, old, new) == StrReplaceFrom(s, old, new, 1)

\* " ".join(args)
RECURSIVE JoinSpace(_)
JoinSpace(args) ==
    IF args = << >> THEN << >>
    ELSE IF Len(args) = 1 THEN args[1]
    ELSE args[1] \o <<" ">> \o JoinSpace(Tail(args))

\* str(i) for 1 <= i <= 99, and f"${i}".
Decimal(i) == IF i < 10 THEN IdxStr(i) ELSE IdxStr(i \div 10) \o IdxStr(i % 10)
Placeholder(i) == <<"$">> \o Decimal(i)
AllArgsPlaceholder == <<"$", "@">>

\* for i, arg in enumerate(args, start=1): result = result.replace(f"${i}", arg)
RECURSIVE PositionalLoop(_, _, _)
PositionalLoop(result, args, i) ==
    IF i > Len(args) THEN result
    ELSE PositionalLoop(StrReplace(result, Placeholder(i), args[i]), args, i + 1)

interpolate_arguments(prompt, args) ==
    LET result == IF Contains(prompt, AllArgsPlaceholder)
                  THEN StrReplace(prompt, AllArgsPlaceholder, JoinSpace(args))
                  ELSE prompt
    IN  PositionalLoop(result, args, 1)

PromptAlphabet == {"$", "1", "2", "0", "@", "x"}
ArgValues == {Str1("a"), <<"$", "2">>, << >>}
TenArgs == [k \in 1..10 |-> IdxStr(k - 1)]
\* Inputs of the tests of TestInterpolateArguments, shortened, and a prompt
\* with a two-digit placeholder for ten arguments.
InterpSamples ==
    { [prompt |-> <<"x", " ", "$", "1", " ", "$", "2">>, args |-> <<Str1("a"), Str1("b")>>],
      [prompt |-> <<"x", ":", " ", "$", "@">>, args |-> <<Str1("a"), Str1("b"), Str1("c")>>],
      [prompt |-> <<"$", "1", " ", "$", "2", " ", "$", "3">>, args |-> <<Str1("a"), Str1("b")>>],
      [prompt |-> <<"$", "1", "0">>, args |-> TenArgs] }

InitInterp ==
    /\ \/ /\ iprompt \in SeqsUpTo(PromptAlphabet, MaxPromptLen)
          /\ iargs \in SeqsUpTo(ArgValues, MaxArgs)
       \/ \E sample \in InterpSamples : iprompt = sample.prompt /\ iargs = sample.args
    /\ ipc = "input"
    /\ iresult = NoInterpResult
    /\ IdleSetup
    /\ sub = "none"
    /\ ccmd = "none" /\ carg = << >> /\ cpc = "idle"
    /\ lookups = << >> /\ launched = << >> /\ cret = 0
    /\ ntext = << >> /\ npc = "idle" /\ nresult = NoNameResult
    /\ xlines = << >> /\ xpc = "idle" /\ xresult = NoResult
    /\ IdleBatch

InterpolateCall ==
    /\ ipc = "input"
    /\ iresult' = interpolate_arguments(iprompt, iargs)
    /\ ipc' = "done"
    /\ UNCHANGED <<iprompt, iargs>>
    /\ UNCHANGED <<extractVars, nameVars, cliVars, equivVars, setupVars, batchVars>>

NextInterp == InterpolateCall
SpecInterp == InitInterp /\ [][NextInterp]_vars

(***************************************************************************)
(* cmd_setup (cli.py), and SpecSetup: up to MaxSetups invocations on the   *)
(* file ~/.codex/AGENTS.md, which the user may edit in between.  The file  *)
(* is the sequence of its section headings.                                *)
(***************************************************************************)
CODEX_INTEGRATION_MARKER == "## Subspace Agent Tools"
\* The headings of CODEX_INTEGRATION_CONTENT, in order.
CODEX_INTEGRATION_CONTENT ==
    << "## Subspace Agent Tools",
       "## Subspace Subagent System",
       "## Subspace Slash Command System",
       "## Output Handling",
       "## Important Notes" >>
\* The section the "already installed" message tells the user to remove.
SectionToRemove == "## Subspace Subagent System"
\* A section of the user's own.
UserSection == "## Project Notes"

\* CODEX_INTEGRATION_MARKER in content
MarkerIn(content) == \E k \in 1..Len(content) : content[k] = CODEX_INTEGRATION_MARKER

\* The content without the sections headed `heading`.
RECURSIVE WithoutSection(_, _)
WithoutSection(content, heading) ==
    IF content = << >> THEN << >>
    ELSE IF Head(content) = heading THEN WithoutSection(Tail(content), heading)
    ELSE <<Head(content)>> \o WithoutSection(Tail(content), heading)

InitSetup ==
    /\ agents_file \in { NoFile,
                         [exists |-> TRUE, content |-> << >>],
                         [exists |-> TRUE, content |-> <<UserSection>>] }
    /\ setup_out = "none"
    /\ setup_ret = 0
    /\ setups = 0
    /\ IdleInterp
    /\ sub = "none"
    /\ ccmd = "none" /\ carg = << >> /\ cpc = "idle"
    /\ lookups = << >> /\ launched = << >> /\ cret = 0
    /\ ntext = << >> /\ npc = "idle" /\ nresult = NoNameResult
    /\ xlines = << >> /\ xpc = "idle" /\ xresult = NoResult
    /\ IdleBatch

setupFrame == <<extractVars, nameVars, cliVars, equivVars, interpVars, batchVars>>

\* cmd_setup: with the marker in the file, report and return 0; otherwise
\* append the content (creating the file) and return 1 when the codex
\* command is not installed, else 0.
CmdSetup ==
    /\ setup_out # "idle"
    /\ setups < MaxSetups
    /\ setups' = setups + 1
    /\ \E codex_available \in BOOLEAN :
          IF agents_file.exists /\ MarkerIn(agents_file.content)
          THEN /\ setup_out' = "already installed"
               /\ setup_ret' = 0
               /\ UNCHANGED agents_file
          ELSE /\ agents_file' = [exists |-> TRUE,
                                  content |-> agents_file.content \o CODEX_INTEGRATION_CONTENT]
               /\ setup_out' = "installed"
               /\ setup_ret' = IF codex_available THEN 0 ELSE 1
    /\ UNCHANGED setupFrame

\* The user, told "To reinstall, first remove the '## Subspace Subagent
\* System' section", removes that section.
UserRemovesSection ==
    /\ setup_out = "already installed"
    /\ agents_file' = [agents_file EXCEPT
                          !.content = WithoutSection(agents_file.content, SectionToRemove)]
    /\ agents_file' # agents_file
    /\ setup_out' = "none"
    /\ UNCHANGED <<setup_ret, setups>>
    /\ UNCHANGED setupFrame

\* The user adds a section of their own at the end of the file.
UserAddsSection ==
    /\ setup_out # "idle"
    /\ Len(agents_file.content) < MaxSections
    /\ agents_file' = [agents_file EXCEPT !.content = @ \o <<UserSection>>]
    /\ setup_out' = "none"
    /\ UNCHANGED <<setup_ret, setups>>
    /\ UNCHANGED setupFrame

NextSetup == CmdSetup \/ UserRemovesSection \/ UserAddsSection
SpecSetup == InitSetup /\ [][NextSetup]_vars

(***************************************************************************)
(* Properties of the single-run path (specification SpecSync).             *)
(***************************************************************************)
\* C3: a subprocess that has written no output and has not exited is killed
\* once more than Timeout ticks have passed since its launch, and the run
\* has returned returncode -1 with the timeout message.
SilentSubprocessTimesOut ==
    (/\ rpc[1] \in {"read", "wait", "done"}
     /\ outcome[1].state # "exception"
     /\ nread = 0 /\ proc[1].state # "exited"
     /\ now - start_time[1] > Timeout)
        => (proc[1].state = "killed" /\ TimedOut(1))

CompleteEvents == {k \in 1..Len(stdout) : stdout[k].kind = "complete"}
\* C9: in jsonl mode a run that has returned (normally, by timeout or by
\* launch failure) has printed exactly one complete event, and printed it
\* last, after the lines it forwarded.
ExactlyOneCompleteEvent ==
    (bpc = "returned" /\ output_format = "jsonl" /\ Tasks # {}) =>
        \A i \in Tasks :
            \E k \in CompleteEvents :
                /\ stdout[k].run = i
                /\ \A m \in 1..Len(stdout) :
                      stdout[m].run = i => (m <= k /\ (m < k => IsForwarded(stdout[m])))

\* C21: whatever the subprocess does (refusing its input included),
\* _run_codex_sync ends by returning an AgentResult: no exception leaves it,
\* and run_agent is not left by one.
SyncAlwaysReturnsResult ==
    /\ bpc # "crashed"
    /\ (bpc \in {"run_agent", "returned"} /\ rpc[1] = "done") => outcome[1].state = "result"

(***************************************************************************)
(* Properties of the batch (specification Spec).                           *)
(***************************************************************************)

\* What belongs to run i alone.
RunState(i) ==
    <<rpc[i], proc[i], outcome[i], jsonl_lines[i], start_time[i], wait_start[i], done_at[i]>>
OneRunPerStep ==
    (bpc = "gather" /\ bpc' = "gather") =>
        \A i, j \in Tasks :
            (i # j /\ RunState(i)' # RunState(i)) => RunState(j)' = RunState(j)
ResultsAreOwn ==
    \A i \in Tasks :
        /\ CompletedNormally(i) =>
              /\ proc[i].state = "exited"
              /\ outcome[i].res.returncode = proc[i].code
              /\ outcome[i].res.agent = agent_name_of(i)
              /\ outcome[i].res.output =
                    IF output_format = "text"
                    THEN extract_agent_messages(jsonl_lines[i]).value ELSE ""
        /\ reported[i] =>
              /\ i <= Len(all_results)
              /\ outcome[i].state = "result" => all_results[i] = outcome[i].res

\* C1: in a batch no step of one run (its timeout with the kill, its launch
\* failure, its exception, or any other) changes the state of a sibling run
\* or of the sibling's subprocess, and every run that completes normally
\* returns the exit code of its own subprocess and the text extracted from
\* the lines it read itself, which is the result reported for it.
SiblingIsolation == []ResultsAreOwn /\ [][OneRunPerStep]_vars

\* A run timed out and the sibling, still running then, finished later with
\* its own output and exit code, and was reported.
SiblingIsolationWitness ==
    \E i, j \in Tasks :
        /\ i # j /\ TimedOut(i)
        /\ CompletedNormally(j) /\ outcome[j].res.returncode = 2
        /\ outcome[j].res.output = "A"
        /\ done_at[j] > done_at[i]
        /\ reported[j]

\* C2: once more than Timeout ticks have passed since a run's subprocess was
\* launched, the run has returned its result.
RunBoundedByTimeout ==
    \A i \in Tasks :
        (proc[i].state # "none" /\ now - start_time[i] > Timeout) => rpc[i] = "done"

\* C4: run_parallel returns a non-zero status whenever a result of the batch
\* has a non-zero return code (timeout -1, launch failure 1, non-zero exit),
\* and so returns 0 only if no run failed.
AggregateIsWorstStatus ==
    bpc = "returned" =>
        ((\E k \in 1..Len(all_results) : all_results[k].returncode # 0) => retval # 0)

\* C5: for a batch of N valid requests run_parallel returns the maximum of
\* the N results' return codes: all_results holds one result per request,
\* the returned value is the code of one of them and no code is greater.
AggregateIsMaximum ==
    (bpc = "returned" /\ requests # << >>) =>
        /\ Len(all_results) = Len(requests)
        /\ \E k \in 1..Len(all_results) : retval = all_results[k].returncode
        /\ \A k \in 1..Len(all_results) : retval >= all_results[k].returncode
        /\ \A i \in Tasks :
              all_results[i].returncode =
                 IF outcome[i].state = "result" THEN outcome[i].res.returncode ELSE 1

\* A batch with a timed-out run (-1) and a run that exited 2 returned 2.
AggregateIsMaximumWitness ==
    /\ bpc = "returned" /\ Len(all_results) = 2
    /\ all_results[1].returncode = 2 /\ all_results[2].returncode = -1
    /\ retval = 2

\* C6: a finished run's result is reported (on_complete called) at the
\* instant the run finishes: no time passes between the two.
ReportedAsSoonAsFinished ==
    \A i \in Tasks : (rpc[i] = "done" /\ ~reported[i]) => now = done_at[i]

\* C7: a batch with a pair that does not parse or whose agent is not found
\* never creates a task or launches a subprocess, prints nothing, and
\* returns a non-zero status.
IsBadPair(pair) ==
    LET parsed == parse_agent_task_pair(pair) IN
    parsed.error # "none" \/ ~find_agent(parsed.agent)
HasBadPair == \E k \in 1..Len(pairs) : IsBadPair(pairs[k])
BadPairRejectsBatch ==
    HasBadPair =>
        /\ bpc \in {"parse", "returned"}
        /\ rpc = << >> /\ proc = << >>
        /\ stdout = << >>
        /\ bpc = "returned" => retval # 0

\* A batch whose first pair is valid and whose second is bad was rejected.
BadPairRejectsBatchWitness ==
    /\ Len(pairs) = 2 /\ ~IsBadPair(pairs[1]) /\ IsBadPair(pairs[2])
    /\ bpc = "returned" /\ retval = 1

\* C8 as stated: every line the read loop forwards in a jsonl batch is a
\* tagged event with the agent_id and agent_name of the run that read it.
TaggedWithOwnId(e) ==
    /\ e.kind = "event"
    /\ e.agent_id = agent_id(e.run)
    /\ e.agent_name = agent_name_of(e.run)
EveryForwardedLineTagged ==
    \A k \in 1..Len(stdout) : IsForwarded(stdout[k]) => TaggedWithOwnId(stdout[k])

\* C8 as amended: a forwarded line that parses as JSON is a tagged event
\* with the agent_id and agent_name of the run that read it; a forwarded
\* line that does not parse as JSON is printed as it is, untagged; no
\* blank line is forwarded.
JsonLinesForwardedTagged ==
    \A k \in 1..Len(stdout) :
        IsForwarded(stdout[k]) =>
            /\ stdout[k].line # ""
            /\ IF JSONDecodeError(stdout[k].line)
               THEN stdout[k].kind = "raw"
               ELSE TaggedWithOwnId(stdout[k])

\* The first run of a batch of two agents forwarded a JSON event and the
\* second run forwarded one too.
JsonLinesForwardedTaggedWitness ==
    /\ Len(stdout) >= 2
    /\ stdout[1].kind = "event" /\ stdout[1].run = 1
    /\ stdout[2].kind = "event" /\ stdout[2].run = 2
    /\ agent_id(1) # agent_id(2)

\* C19: a batch of N valid requests has returned only if every one of its
\* N runs has ended (with a result or an exception, which is reported as a
\* result); all_results then holds exactly N results, the i-th being the
\* result of the i-th request.
BatchReturnsAfterAllRuns ==
    (bpc = "returned" /\ requests # << >>) =>
        /\ \A i \in Tasks : rpc[i] = "done" /\ outcome[i] # Pending
        /\ Len(all_results) = Len(requests)
        /\ \A i \in Tasks :
              /\ all_results[i].agent = requests[i].agent
              /\ outcome[i].state = "result" => all_results[i] = outcome[i].res
              /\ outcome[i].state = "exception" =>
                    (all_results[i].returncode = 1 /\ all_results[i].error = outcome[i].exc)

\* A batch of two different agents returned; the second run had ended
\* before the first, and the results are in the order of the pairs.
BatchReturnsAfterAllRunsWitness ==
    /\ bpc = "returned" /\ Len(requests) = 2
    /\ requests[1].agent # requests[2].agent
    /\ done_at[2] < done_at[1]
    /\ all_results[1].agent = requests[1].agent
    /\ all_results[2].agent = requests[2].agent

NoSubprocessLeftRunning ==
    bpc = "returned" => \A i \in Tasks : proc[i].state \in {"none", "exited", "killed"}

\* C10: extract_agent_messages returns a string for every sequence of lines,
\* whether a line is invalid JSON or valid JSON of an unexpected shape; no
\* line makes the call end in an exception.
ExtractNeverAborts == xpc = "done" => xresult.exc = "none"

(***************************************************************************)
(* Properties of extract_agent_messages (specification SpecExtract).       *)
(***************************************************************************)
\* Whether a line is an item.completed event whose item is an agent_message,
\* and the text it carries ("" when it has none or the text is no string).
IsAgentMessage(line) ==
    LET l == Strip(line) IN
    /\ ~JSONDecodeError(l)
    /\ json_loads(l).kind = "obj"
    /\ "type" \in DOMAIN json_loads(l).fields
    /\ EqStr(json_loads(l).fields.type, "item.completed")
    /\ "item" \in DOMAIN json_loads(l).fields
    /\ json_loads(l).fields.item.kind = "obj"
    /\ "type" \in DOMAIN json_loads(l).fields.item.fields
    /\ EqStr(json_loads(l).fields.item.fields.type, "agent_message")
MessageText(line) ==
    LET item == json_loads(Strip(line)).fields.item IN
    IF "text" \in DOMAIN item.fields /\ item.fields.text.kind = "str"
    THEN item.fields.text.str ELSE ""
Qualifies(line) == IsAgentMessage(line) /\ MessageText(line) # ""
QualifyingTexts(lines) ==
    LET q == SelectSeq(lines, Qualifies) IN [k \in 1..Len(q) |-> MessageText(q[k])]
RECURSIVE JoinTexts(_)
JoinTexts(ts) ==
    IF ts = << >> THEN ""
    ELSE IF Len(ts) = 1 THEN ts[1]
    ELSE JoinTexts(SubSeq(ts, 1, Len(ts) - 1)) \o "\n\n" \o ts[Len(ts)]

ExtractValueWhenReturned ==
    (xpc = "done" /\ xresult.exc = "none") =>
        xresult.value = JoinTexts(QualifyingTexts(xlines))

(***************************************************************************)
(* Properties of validate_agent_name and parse_agent_task_pair             *)
(* (specification SpecNames).                                              *)
(***************************************************************************)
\* A name of the accepted alphabet: non-empty, letters, digits, hyphen and
\* underscore only, no leading hyphen.
SafeName(name) ==
    /\ name # << >>
    /\ \A k \in 1..Len(name) : name[k] \in NameChars
    /\ name[1] # "-"

\* C12: validate_agent_name accepts a name if and only if it is non-empty,
\* has only letters, digits, hyphens and underscores, and does not start
\* with a hyphen; a name with whitespace anywhere (a trailing newline
\* included), '/', '\', '.', '@' or ':' is rejected.
ValidatorAcceptsExactlySafeNames ==
    npc = "validated" => (nresult.error = "ok" <=> SafeName(ntext))

\* The text before and after the first colon of a pair.
TextBefore(pair) == SubStr(pair, 1, FirstColon(pair) - 1)
TextAfter(pair) == SubStr(pair, FirstColon(pair) + 1, Len(pair))
\* A task given in quoted form: a non-empty text between two quotes q.
InQuotes(a, q) == Len(a) >= 3 /\ a[1] = q /\ a[Len(a)] = q
Unquoted(a) ==
    IF InQuotes(a, "\"") \/ InQuotes(a, "'") THEN SubStr(a, 2, Len(a) - 1) ELSE a
\* The task a pair gives: the text after the first colon, without its
\* enclosing quotes, trimmed.
GivenTask(pair) == StrStrip(Unquoted(TextAfter(pair)))
\* The same when the quotes are looked for after trimming: for a quoted task
\* with whitespace around it either reading is taken as meeting C14.
GivenTaskTrimmedFirst(pair) == StrStrip(Unquoted(StrStrip(TextAfter(pair))))
Trimmed(s) == s = << >> \/ (s[1] \notin Whitespace /\ s[Len(s)] \notin Whitespace)

\* C14: when parse_agent_task_pair succeeds, the agent is the trimmed text
\* before the first colon and passes validate_agent_name, and the task is
\* non-empty, trimmed, and is the text after the first colon with its
\* enclosing double or single quotes removed when it is given in quotes.
ParseReturnsAgentAndTask ==
    (npc = "parsed" /\ nresult.error = "none") =>
        /\ FirstColon(ntext) > 0
        /\ nresult.agent = StrStrip(TextBefore(ntext))
        /\ validate_agent_name(nresult.agent) = "ok"
        /\ nresult.task # << >> /\ Trimmed(nresult.task)
        /\ nresult.task \in {GivenTask(ntext), GivenTaskTrimmedFirst(ntext)}

\* C15: parse_agent_task_pair fails whenever the text has no colon, whenever
\* the task it gives is empty after trimming and whenever the agent name
\* fails validate_agent_name; it looks nothing up on the filesystem.
ParseFailsOnBadPairs ==
    npc = "parsed" =>
        /\ lookups = << >>
        /\ (\/ FirstColon(ntext) = 0
            \/ GivenTask(ntext) = << >>
            \/ validate_agent_name(StrStrip(TextBefore(ntext))) # "ok")
              => (nresult.error # "none" /\ nresult.agent = << >> /\ nresult.task = << >>)

\* A segment of a command name: non-empty, letters, digits, hyphen and
\* underscore only, no leading hyphen.  A command name: one segment, or two
\* separated by one colon.
CommandNameBody(name) == IF name # << >> /\ name[1] = "/" THEN Tail(name) ELSE name
IsCommandName(body) ==
    \/ SafeName(body)
    \/ \E c \in 1..Len(body) :
          /\ body[c] = ":"
          /\ SafeName(SubStr(body, 1, c - 1))
          /\ SafeName(SubStr(body, c + 1, Len(body)))

\* C24: validate_command_name accepts, after one optional leading '/',
\* exactly the names made of one segment or of two segments separated by
\* one colon, each segment non-empty, of letters, digits, hyphens and
\* underscores, not starting with a hyphen, and returns the name without
\* the leading '/'; it rejects every other name.
CommandValidatorAcceptsExactlyCommandNames ==
    npc = "command_validated" =>
        IF IsCommandName(CommandNameBody(ntext))
        THEN nresult = [error |-> "none", clean_name |-> CommandNameBody(ntext)]
        ELSE nresult.error # "none" /\ nresult.clean_name = << >>

(***************************************************************************)
(* Properties of the command-line handlers (specification SpecCli).        *)
(***************************************************************************)
\* Whether a name passes the validation of its kind.
PassesValidation(kind, name) ==
    IF kind = "agent" THEN validate_agent_name(name) = "ok"
    ELSE validate_command_name(name).error = "none"
\* The agent name of a pair: the trimmed text before its first colon.
PairName(pair) == StrStrip(SubStr(pair, 1, FirstColon(pair) - 1))
\* The names given on the command line that fail validation.
FailingNames ==
    IF ccmd = "parallel"
    THEN {PairName(carg[k]) : k \in {j \in 1..Len(carg) :
              FirstColon(carg[j]) > 0 /\ ~PassesValidation("agent", PairName(carg[j]))}}
    ELSE IF carg = NoAgentName THEN {}
    ELSE IF ccmd \in AgentCommands
    THEN {n \in {carg} : ~PassesValidation("agent", n)}
    ELSE {n \in {carg} : ~PassesValidation("command", n)}

\* C13: in cmd_run, cmd_show, cmd_parallel, cmd_command_get and
\* cmd_command_show every name that is looked up in the sources or that a
\* subprocess is launched for has passed validation before, and a name that
\* fails validation makes the handler return non-zero with no lookup of
\* that name and no subprocess launched.
NamesValidatedBeforeUse ==
    /\ \A k \in 1..Len(lookups) : PassesValidation(lookups[k].kind, lookups[k].name)
    /\ \A k \in 1..Len(launched) :
          launched[k] = NoAgentName \/ PassesValidation("agent", launched[k])
    /\ (cpc \in {"find", "use", "returned"} /\ FailingNames # {}) =>
          /\ cpc = "returned" /\ cret # 0
          /\ \A k \in 1..Len(lookups) : lookups[k].name \notin FailingNames
          /\ launched = << >>

\* cmd_parallel returned 1 for a valid pair followed by a pair with an
\* invalid name: the first agent was looked up, the invalid name never.
NamesValidatedBeforeUseWitness ==
    /\ ccmd = "parallel" /\ cpc = "returned" /\ cret = 1
    /\ Len(carg) = 2 /\ FailingNames # {}
    /\ Len(lookups) = 1 /\ lookups[1].name = PairName(carg[1])
    /\ launched = << >>

(***************************************************************************)
(* Properties of both supervisors (specification SpecRuns).                *)
(***************************************************************************)
\* The lines of the supervisor's output that run i forwarded.
ForwardedBy(i) ==
    LET own(e) == IsForwarded(e) /\ e.run = i
        sel == SelectSeq(stdout, own)
    IN  [k \in 1..Len(sel) |-> sel[k].line]

\* C16: a run whose subprocess could not be launched (binary not found, or
\* the start failed) has returned at once, at the instant it started, a
\* result with returncode 1, empty output and the error message; it wrote
\* no payload, read and forwarded no line and waited for nothing.
LaunchFailureReturnsAtOnce ==
    \A i \in Tasks :
        (rpc[i] = "done" /\ proc[i] = NotStarted) =>
            /\ outcome[i].state = "result"
            /\ outcome[i].res.returncode = 1
            /\ outcome[i].res.output = ""
            /\ outcome[i].res.error \in LaunchErrors
            /\ outcome[i].res.agent = agent_name_of(i)
            /\ done_at[i] = start_time[i]
            /\ stdin[i] = Untouched
            /\ emitted[i] = << >> /\ jsonl_lines[i] = << >> /\ ForwardedBy(i) = << >>

\* In a batch of two the second run failed to launch; the first read a
\* line, ended later and completed normally.
LaunchFailureReturnsAtOnceWitness ==
    /\ bpc = "returned" /\ Len(requests) = 2
    /\ proc[2] = NotStarted /\ outcome[2].res.error = "Codex binary not found"
    /\ CompletedNormally(1) /\ emitted[1] # << >> /\ done_at[1] > done_at[2]

\* C17: a run that ended by timeout (its result carries the timeout
\* message) returned only after its subprocess was killed; the result has
\* returncode -1 and empty output, whatever lines were collected before.
TimeoutKillsAndDiscards ==
    \A i \in Tasks :
        (outcome[i].state = "result" /\ outcome[i].res.error = TimeoutMessage) =>
            /\ proc[i] = Killed
            /\ outcome[i].res.returncode = -1
            /\ outcome[i].res.output = ""
            /\ outcome[i].res.agent = agent_name_of(i)

\* A run of a text batch collected an agent message, then timed out.
TimeoutKillsAndDiscardsWitness ==
    \E i \in Tasks :
        /\ bpc = "gather" /\ output_format = "text"
        /\ TimedOut(i) /\ proc[i] = Killed
        /\ jsonl_lines[i] = <<LineMsgA>>

\* The non-blank lines among those a subprocess wrote, stripped, in order.
NonBlank(lines) ==
    LET nonblank(l) == l # "" IN
    SelectSeq([k \in 1..Len(lines) |-> Strip(lines[k])], nonblank)

\* C18: a run that wrote its payload, read its subprocess's output to the
\* end and saw the subprocess exit has returned a result with the
\* subprocess's exit code and no error; in collect mode (text) the output is
\* extract_agent_messages of the non-blank lines in the order written, in
\* stream mode (jsonl) the output is empty and each non-blank line was
\* forwarded once, in order.
NormalCompletionResult ==
    \A i \in Tasks :
        (rpc[i] = "done" /\ stdin[i] = WrittenAndClosed /\ proc[i].state = "exited") =>
            /\ outcome[i].state = "result"
            /\ outcome[i].res.returncode = proc[i].code
            /\ outcome[i].res.error = "None"
            /\ IF output_format = "text"
               THEN /\ extract_agent_messages(NonBlank(emitted[i])).exc = "none"
                    /\ outcome[i].res.output =
                          extract_agent_messages(NonBlank(emitted[i])).value
               ELSE /\ outcome[i].res.output = ""
                    /\ ForwardedBy(i) = NonBlank(emitted[i])

\* What C25 says of a state: the input of a subprocess holds no document and
\* is open, or holds the one payload document and is closed; a run that
\* reads, has read a line or waits for the exit has written the payload and
\* closed the input before; a run of a launched subprocess that ended with
\* the input untouched ended in the write itself, refused by the subprocess,
\* and read nothing.
InputWrittenOnceBeforeReading ==
    \A i \in Tasks :
        /\ \/ (stdin[i].docs = 0 /\ ~stdin[i].closed)
           \/ (stdin[i].docs = 1 /\ stdin[i].closed)
        /\ stdin[i].docs > 0 => proc[i].state # "none"
        /\ (rpc[i] \in {"read", "wait"} \/ emitted[i] # << >>) =>
              (stdin[i].docs = 1 /\ stdin[i].closed)
        /\ (rpc[i] = "done" /\ proc[i].state # "none" /\ stdin[i].docs = 0) =>
              (outcome[i] = Raised("BrokenPipeError") /\ emitted[i] = << >>)
\* What C25 says of a step: an input that was written and closed stays so.
InputNeverWrittenAgain ==
    \A i \in Tasks : stdin[i].closed => stdin'[i] = stdin[i]

SubprocessEnvIsOverriddenCopy ==
    \A i \in Tasks :
        rpc[i] # "spawn" =>
            /\ env[i]["CODEX_HOME"] = SandboxHome
            /\ \A k \in EnvNames \ {"CODEX_HOME"} : env[i][k] = os_environ[k]
            /\ \A j \in Tasks : rpc[j] # "spawn" => env[j]["CODEX_HOME"] = env[i]["CODEX_HOME"]
SupervisorEnvUnchanged == os_environ' = os_environ
SubprocessEnvironment ==
    []SubprocessEnvIsOverriddenCopy /\ [][SupervisorEnvUnchanged]_vars
SubprocessEnvironmentWitness ==
    /\ bpc = "returned"
    /\ Len(requests) = 2
    /\ os_environ["CODEX_HOME"] \notin {Unset, SandboxHome}
    /\ \A i \in Tasks : proc[i].state = "exited" /\ env[i]["CODEX_HOME"] = SandboxHome

\* C27: returncode -1 is reserved for timeout: a result with returncode -1,
\* returned by a run or collected by run_parallel, is the result of a run
\* that timed out (its subprocess killed by the supervisor) and carries the
\* timeout message; no exit of a subprocess gives it.
MinusOneMeansTimeout ==
    /\ \A i \in Tasks :
          (outcome[i].state = "result" /\ outcome[i].res.returncode = -1) =>
              (outcome[i].res.error = TimeoutMessage /\ proc[i] = Killed)
    /\ \A k \in 1..Len(all_results) :
          all_results[k].returncode = -1 => all_results[k].error = TimeoutMessage

(***************************************************************************)
(* Properties of the two supervisors side by side (specification           *)
(* SpecEquiv).                                                             *)
(***************************************************************************)
\* C20: given the same payload, timeout and subprocess behaviour (lines,
\* their timing, exit code), _run_codex_async in collect mode ends as
\* _run_codex_sync does: the same returncode, output and error (or the same
\* exception).
SyncAsyncSameResult ==
    (bpc = "equiv" /\ \A i \in EquivRuns : rpc[i] = "done") =>
        /\ outcome[AsyncRun].state = outcome[SyncRun].state
        /\ outcome[AsyncRun].exc = outcome[SyncRun].exc
        /\ outcome[AsyncRun].res.returncode = outcome[SyncRun].res.returncode
        /\ outcome[AsyncRun].res.output = outcome[SyncRun].res.output
        /\ outcome[AsyncRun].res.error = outcome[SyncRun].res.error

(***************************************************************************)
(* Properties of interpolate_arguments (specification SpecInterp).         *)
(***************************************************************************)

\* The digits that follow position i of s, as far as they go.
RECURSIVE DigitRun(_, _)
DigitRun(s, i) ==
    IF i <= Len(s) /\ s[i] \in {"0", "1", "2", "3", "4", "5", "6", "7", "8", "9"}
    THEN <<s[i]>> \o DigitRun(s, i + 1)
    ELSE << >>
DigitValue(c) == CHOOSE d \in 0..9 : IdxStr(d) = Str1(c)
\* The number a run of digits writes; 0 when it writes none that a
\* placeholder can have (no digit, a leading zero), and a number beyond
\* every argument list when it has more than two digits.
RunValue(run) ==
    IF run = << >> \/ run[1] = "0" THEN 0
    ELSE IF Len(run) = 1 THEN DigitValue(run[1])
    ELSE IF Len(run) = 2 THEN 10 * DigitValue(run[1]) + DigitValue(run[2])
    ELSE 100
\* The prompt with each placeholder replaced in one pass: $@ by the arguments
\* joined with a space, $i by the i-th argument when there is one; a
\* placeholder without argument, and all other text, stay as written.
RECURSIVE Expand(_, _, _)
Expand(s, args, i) ==
    IF i > Len(s) THEN << >>
    ELSE IF OccursAt(s, AllArgsPlaceholder, i)
    THEN JoinSpace(args) \o Expand(s, args, i + 2)
    ELSE IF s[i] = "$" /\ DigitRun(s, i + 1) # << >>
    THEN LET run == DigitRun(s, i + 1)
             n == RunValue(run)
         IN  (IF n \in 1..Len(args) THEN args[n] ELSE <<"$">> \o run)
                \o Expand(s, args, i + 1 + Len(run))
    ELSE <<s[i]>> \o Expand(s, args, i + 1)

\* C23: interpolate_arguments replaces every $i with 1 <= i <= len(args) by
\* the i-th argument and $@ by the arguments joined with a space, leaves a
\* placeholder without argument as written, and returns the prompt unchanged
\* when the argument list is empty.
InterpolationReplacesPlaceholders ==
    ipc = "done" =>
        /\ iargs = << >> => iresult = iprompt
        /\ iargs # << >> => iresult = Expand(iprompt, iargs, 1)

(***************************************************************************)
(* Properties of cmd_setup (specification SpecSetup).                      *)
(***************************************************************************)
\* How many times the integration block stands in the content.
BlockCount(content) ==
    Cardinality({ k \in 1..Len(content) :
                    /\ k + Len(CODEX_INTEGRATION_CONTENT) - 1 <= Len(content)
                    /\ SubSeq(content, k, k + Len(CODEX_INTEGRATION_CONTENT) - 1)
                          = CODEX_INTEGRATION_CONTENT })

\* After an invocation the block is in the file exactly once.
BlockOnceAfterSetup ==
    setup_out \in {"installed", "already installed"} =>
        agents_file.exists /\ BlockCount(agents_file.content) = 1
\* An invocation that finds the marker leaves the file and returns 0.
MarkerFoundLeavesFile ==
    (setups' # setups /\ agents_file.exists /\ MarkerIn(agents_file.content)) =>
        agents_file' = agents_file /\ setup_ret' = 0

\* C30: cmd_setup is idempotent on AGENTS.md: after any number of
\* invocations the integration block is in the file exactly once, and an
\* invocation that finds the marker leaves the file unchanged and returns 0.
SetupIdempotent == []BlockOnceAfterSetup /\ [][MarkerFoundLeavesFile]_vars

(***************************************************************************)
(* Properties of the supervision of a subprocess that writes to its        *)
(* standard error (specification SpecPipe).                                *)
(***************************************************************************)
\* The supervisor waits without a timer (the read loop of the single run,
\* proc.wait() of a task of the batch) for a subprocess that is blocked.
WaitsOnBlocked(i) ==
    /\ Blocked(i)
    /\ \/ bpc = "run_agent" /\ rpc[i] = "read"
       \/ bpc = "gather" /\ rpc[i] = "wait"
\* C29: a subprocess that writes to its standard error and otherwise
\* finishes on its own is supervised to normal completion: no supervisor
\* waits for good on a subprocess blocked on the stderr pipe, and no run is
\* reported as timed out.
StderrNeverStallsRun ==
    \A i \in Tasks : ~WaitsOnBlocked(i) /\ ~TimedOut(i)

====
